---- MODULE Spec2Model ----
(***************************************************************************)
(* Model of the trend-estimation and adaptive-adjustment core of           *)
(* macromanage: ProgressTracker (progress_tracker.py), DynamicAdjuster     *)
(* (adjustment_system.py), DailyLog (base_types.py) and the net-adjustment *)
(* resolution used by MacroTracker.get_recommendations (macro_tracker.py). *)
(*                                                                         *)
(* Numbers.  Python floats are modelled by exact rationals:                *)
(*   - a weight is an integer number of hundredths of a kilogram           *)
(*     (8000 = 80.0 kg), a body-fat an integer percentage;                 *)
(*   - lean and fat mass are integers, in tenths of a gram                 *)
(*     (weight * percent);                                                 *)
(*   - a date is an integer day number, so (a.date - b.date).days is a - b;*)
(*   - a rational is a pair <<num, den>> with den > 0;                     *)
(*   - round() is Python's round-half-to-even.                             *)
(* A query's outcome is a record with a field kind; kind "raise" stands    *)
(* for an exception leaving the method.                                    *)
(***************************************************************************)
EXTENDS Integers, Sequences, FiniteSets

VARIABLES
    logs,          \* ProgressTracker.logs of the tracker the query runs on
    adjustments,   \* the Adjustment list: what calculate_adjustments returned,
                   \* the argument of get_net_adjustment
    call,          \* the query last issued, with its arguments
    ret,           \* what that query returned
    heap,          \* the list objects and ProgressTracker objects created so far
    macro,         \* the fields of the MacroTracker: references into heap
    pc,            \* where the thread running add_log / load_data stands
    reader         \* the reading thread: the tracker it holds, what it saw

vars == <<logs, adjustments, call, ret, heap, macro, pc, reader>>

(***************************************************************************)
(* Arithmetic helpers                                                      *)
(***************************************************************************)
Abs(x) == IF x < 0 THEN -x ELSE x

Range(s) == {s[i] : i \in DOMAIN s}

MaxOfSet(S) == CHOOSE m \in S : \A x \in S : m >= x

\* Python 3 round(p / q), q > 0: to the nearest integer, ties to the even one.
PyRound(p, q) ==
    LET f == p \div q
        r == p - f * q
    IN  IF 2 * r < q THEN f
        ELSE IF 2 * r > q THEN f + 1
        ELSE IF f % 2 = 0 THEN f
        ELSE f + 1

NoCall == [name |-> "none"]
NoRet == [kind |-> "none"]

\* No MacroTracker has been constructed: the queries run on a tracker's logs.
EmptyHeap == [lists |-> <<>>, trackers |-> <<>>]
NoMacro == [logs |-> 0, tracker |-> 0, calculator |-> 0, adjuster |-> 0,
            data_manager |-> 0]
Idle == [op |-> "idle"]
NoReader == [tracker |-> 0, seen |-> <<>>]

NoMacroTracker ==
    /\ heap = EmptyHeap
    /\ macro = NoMacro
    /\ pc = Idle
    /\ reader = NoReader

(***************************************************************************)
(* Adjustment and get_net_adjustment                                       *)
(***************************************************************************)
\* The dataclass Adjustment; reason keeps the fixed part of the message and
\* the suggestion text, which repeats the numbers, is left out.
Adjustment(calories, protein, reason, severity) ==
    [calories |-> calories, protein |-> protein, reason |-> reason,
     severity |-> severity]

OfSeverity(adjs, sev) == SelectSeq(adjs, LAMBDA a : a.severity = sev)

\* The tier's net values: the two maxima are taken independently.
TierNet(tier) ==
    [calories |-> MaxOfSet({a.calories : a \in Range(tier)}),
     protein |-> MaxOfSet({a.protein : a \in Range(tier)})]

\* A plausible slip: the calories and protein of the first record of the list,
\* whatever its severity.
get_net_adjustment_first(adjs) ==
    IF adjs = <<>> THEN [calories |-> 0, protein |-> 0]
    ELSE [calories |-> adjs[1].calories, protein |-> adjs[1].protein]

\* A plausible slip: the tiers are summed instead of maximised.
RECURSIVE SumCalories(_)
SumCalories(s) == IF s = <<>> THEN 0 ELSE s[1].calories + SumCalories(Tail(s))

RECURSIVE SumProtein(_)
SumProtein(s) == IF s = <<>> THEN 0 ELSE s[1].protein + SumProtein(Tail(s))

get_net_adjustment_sum(adjs) ==
    LET high == OfSeverity(adjs, "high")
        medium == OfSeverity(adjs, "medium")
        tier == IF high # <<>> THEN high ELSE medium
    IN  [calories |-> SumCalories(tier), protein |-> SumProtein(tier)]

\* A plausible slip: Low records contribute when no higher tier is present.
get_net_adjustment_low(adjs) ==
    LET high == OfSeverity(adjs, "high")
        medium == OfSeverity(adjs, "medium")
    IN  IF adjs = <<>> THEN [calories |-> 0, protein |-> 0]
        ELSE IF high # <<>> THEN TierNet(high)
        ELSE IF medium # <<>> THEN TierNet(medium)
        ELSE TierNet(adjs)

get_net_adjustment(adjs) ==
    LET high == OfSeverity(adjs, "high")
        medium == OfSeverity(adjs, "medium")
    IN  IF adjs = <<>> THEN [calories |-> 0, protein |-> 0]
        ELSE IF high # <<>> THEN TierNet(high)
        ELSE IF medium # <<>> THEN TierNet(medium)
        ELSE [calories |-> 0, protein |-> 0]

(***************************************************************************)
(* DailyLog (base_types.py) and list helpers                               *)
(***************************************************************************)
\* Optional[float] = None, for lean_mass and fat_mass.
NoneVal == -1

\* Python truthiness of an Optional[float]: None and 0 are false.
Truthy(x) == x # NoneVal /\ x # 0

\* A plausible slip: masses passed to the constructor are kept.
DailyLog_keeping(date, weight, body_fat, calories, protein, lean_mass, fat_mass) ==
    LET derived == weight # 0 /\ body_fat # 0
        fm == weight * body_fat
    IN  [date |-> date, weight |-> weight, body_fat |-> body_fat,
         calories |-> calories, protein |-> protein,
         fat_mass |-> IF derived /\ fat_mass = NoneVal THEN fm ELSE fat_mass,
         lean_mass |-> IF derived /\ lean_mass = NoneVal
                       THEN weight * 100 - fm ELSE lean_mass]

\* DailyLog(...) followed by __post_init__: with weight and body-fat both
\* non-zero the masses are recomputed, otherwise the given ones are kept.
\* weight is in hundredths of a kilogram and body_fat in percent, so that
\* weight * (body_fat / 100) is weight * body_fat tenths of a gram.
DailyLog(date, weight, body_fat, calories, protein, lean_mass, fat_mass) ==
    LET derived == weight # 0 /\ body_fat # 0
        fm == weight * body_fat
    IN  [date |-> date, weight |-> weight, body_fat |-> body_fat,
         calories |-> calories, protein |-> protein,
         fat_mass |-> IF derived THEN fm ELSE fat_mass,
         lean_mass |-> IF derived THEN weight * 100 - fm ELSE lean_mass]

\* s[-k:] of Python for k >= 0 (s[-0:] is the whole list).
LastN(s, k) ==
    IF k = 0 \/ k >= Len(s) THEN s ELSE SubSeq(s, Len(s) - k + 1, Len(s))

\* sorted(s, key=lambda x: x.date): stable, ascending by date.
RECURSIVE InsertByDate(_, _)
InsertByDate(s, x) ==
    IF s = <<>> THEN <<x>>
    ELSE IF s[Len(s)].date <= x.date THEN Append(s, x)
    ELSE Append(InsertByDate(SubSeq(s, 1, Len(s) - 1), x), s[Len(s)])

RECURSIVE SortByDate(_)
SortByDate(s) ==
    IF s = <<>> THEN <<>>
    ELSE InsertByDate(SortByDate(SubSeq(s, 1, Len(s) - 1)), s[Len(s)])

RECURSIVE SumSeq(_)
SumSeq(s) == IF s = <<>> THEN 0 ELSE s[1] + SumSeq(Tail(s))

CountPositive(s) == Cardinality({i \in DOMAIN s : s[i] > 0})

\* ProgressTracker.__init__: a sorted copy of the list it is given.
ProgressTracker(lg) == SortByDate(lg)

(***************************************************************************)
(* np.polyfit(x, y, 1): the least-squares slope                            *)
(***************************************************************************)
\* slope = (n*Sxy - Sx*Sy) / (n*Sxx - Sx*Sx).  When every x is the same the
\* system is singular: numpy divides the scaled design matrix by zero and the
\* solver then either raises LinAlgError or hands back NaN; which of the two
\* is the build's choice, passed in as singular \in {"raise", "nan"}.
\* A plausible slip: the product of the means is not subtracted.
polyfit_uncentered(x, y, singular) ==
    LET n == Len(x)
        sx == SumSeq(x)
        sxy == SumSeq([i \in 1..n |-> x[i] * (y[i] - y[1] + 1)])
        sxx == SumSeq([i \in 1..n |-> x[i] * x[i]])
        den == n * sxx - sx * sx
    IN  IF den = 0 THEN [kind |-> singular, num |-> 0, den |-> 1]
        ELSE [kind |-> "ok", num |-> n * sxy, den |-> den]

polyfit(x, y, singular) ==
    LET n == Len(x)
        sx == SumSeq(x)
        sy == SumSeq(y)
        sxy == SumSeq([i \in 1..n |-> x[i] * y[i]])
        sxx == SumSeq([i \in 1..n |-> x[i] * x[i]])
        den == n * sxx - sx * sx
    IN  IF den = 0 THEN [kind |-> singular, num |-> 0, den |-> 1]
        ELSE [kind |-> "ok", num |-> n * sxy - sx * sy, den |-> den]

SingularOutcomes == {"raise", "nan"}

(***************************************************************************)
(* ProgressTracker (progress_tracker.py)                                   *)
(***************************************************************************)
\* len(self.logs) < 7, len(recent_logs) < 7
MinTdeeLogs == 7
\* 500 <= tdee <= 10000
MinTdee == 500
MaxTdee == 10000
\* daily_weight_change * 2.20462 * 3500 kcal per kg/day; a weight unit is a
\* hundredth of a kilogram, so one unit per day is 771617 / 10000 kcal.
KcalPerUnitNum == 771617
KcalPerUnitDen == 10000

PyNone == [kind |-> "None"]
Raise == [kind |-> "raise"]
EmptyDict == [kind |-> "empty"]

\* round(whole + p / q) for integers whole, p and q > 0.
RoundMixed(whole, p, q) ==
    LET f == whole + (p \div q)
        r == p % q
    IN  IF 2 * r < q THEN f
        ELSE IF 2 * r > q THEN f + 1
        ELSE IF f % 2 = 0 THEN f
        ELSE f + 1

\* round(avg_calories - daily_cal_adjustment) with avg_calories = cal_sum / n
\* and daily_cal_adjustment = (num / den) * KcalPerUnitNum / KcalPerUnitDen.
\* The quotients are split into whole and fractional parts first, to keep
\* every intermediate product small.
RoundTdee(cal_sum, n, num, den) ==
    LET d == KcalPerUnitDen * den
        a == (KcalPerUnitNum * num) \div d
        ar == (KcalPerUnitNum * num) % d
        sq == cal_sum \div n
        sr == cal_sum % n
    IN  RoundMixed(sq - a, sr * d - ar * n, n * d)

\* A plausible slip: the bounds themselves are rejected.
TdeeGuard_strict(tdee) ==
    IF MinTdee < tdee /\ tdee < MaxTdee
    THEN [kind |-> "value", value |-> tdee]
    ELSE PyNone

\* The plausibility guard of calculate_tdee.
TdeeGuard(tdee) ==
    IF MinTdee <= tdee /\ tdee <= MaxTdee
    THEN [kind |-> "value", value |-> tdee]
    ELSE PyNone

\* A plausible slip: days logged with 0 kcal are left out of the average.
CalorieSamples_logged(recent_logs) ==
    SelectSeq([i \in 1..Len(recent_logs) |-> recent_logs[i].calories],
              LAMBDA c : c > 0)

\* [log.calories for log in recent_logs]
CalorieSamples(recent_logs) ==
    [i \in 1..Len(recent_logs) |-> recent_logs[i].calories]

calculate_tdee(lg, days, singular) ==
    IF Len(lg) < MinTdeeLogs THEN PyNone
    ELSE
        LET recent_logs == SortByDate(LastN(lg, days))
            n == Len(recent_logs)
        IN  IF n < MinTdeeLogs THEN PyNone
            ELSE
                LET samples == CalorieSamples(recent_logs)
                    dates == [i \in 1..n |->
                                 recent_logs[i].date - recent_logs[1].date]
                    weights == [i \in 1..n |-> recent_logs[i].weight]
                    fit == polyfit(dates, weights, singular)
                IN  \* round(nan) raises ValueError
                    IF fit.kind # "ok" THEN Raise
                    ELSE TdeeGuard(RoundTdee(SumSeq(samples), Len(samples),
                                             fit.num, fit.den))

\* A plausible slip: only the empty list counts as too short.
TooFewLogs_empty(lg, days) == Len(lg) = 0

\* len(self.logs) < days
TooFewLogs(lg, days) == Len(lg) < days

\* recent[-7:]
MovingWindow == 7

\* The mapping returned by calculate_trends.  weight_trend is slope * 7 as the
\* rational trend_num / trend_den (hundredths of a kilogram per week), or NaN; the
\* moving averages and the adherence are <<sum, count>> pairs.  weight_cv
\* (a standard deviation) is irrational and read by no decision: left out.
calculate_trends(lg, days, singular) ==
    IF TooFewLogs(lg, days) THEN EmptyDict
    ELSE
        LET recent == LastN(lg, days)
            n == Len(recent)
            dates == [i \in 1..n |-> recent[i].date - recent[1].date]
            weights == [i \in 1..n |-> recent[i].weight]
            fit == IF n > 1 THEN polyfit(dates, weights, singular)
                   ELSE [kind |-> "absent", num |-> 0, den |-> 1]
            last == LastN(recent, MovingWindow)
            m == Len(last)
        IN  IF fit.kind = "raise" THEN Raise
            ELSE [kind |-> "dict",
                  has_weight_trend |-> n > 1,
                  trend_nan |-> fit.kind = "nan",
                  trend_num |-> 7 * fit.num,
                  trend_den |-> fit.den,
                  weight_ma |-> <<SumSeq([i \in 1..m |-> last[i].weight]), m>>,
                  calories_ma |-> <<SumSeq([i \in 1..m |-> last[i].calories]), m>>,
                  protein_ma |-> <<SumSeq([i \in 1..m |-> last[i].protein]), m>>,
                  calorie_adherence |->
                      <<CountPositive([i \in 1..m |-> last[i].calories]), m>>]

\* A plausible slip: <= in place of <.
TrendBelow_inclusive(changes, threshold) ==
    /\ ~ changes.trend_nan
    /\ 10 * Abs(changes.trend_num) <= threshold * changes.trend_den

\* abs(changes['weight_trend']) < threshold, with threshold in grams per week
\* and the trend in hundredths of a kilogram per week; false for NaN.
TrendBelow(changes, threshold) ==
    /\ ~ changes.trend_nan
    /\ 10 * Abs(changes.trend_num) < threshold * changes.trend_den

\* A plausible slip: adherence >= 0.85 counts as good.
GoodAdherence_lenient(a) == 100 * a[1] >= 85 * a[2]

\* adherence > 0.9 for adherence = a[1] / a[2]
GoodAdherence(a) == 10 * a[1] > 9 * a[2]

PlateauResult(plateau, message, percent) ==
    [kind |-> "tuple", plateau |-> plateau, message |-> message,
     percent |-> percent]

\* A plausible slip: too little data is reported as "No plateau detected".
ProgressTracker_detect_plateau_merged(lg, threshold, weeks, singular) ==
    LET changes == calculate_trends(lg, weeks * 7, singular)
    IN  IF changes.kind = "raise" THEN Raise
        ELSE IF changes.kind = "empty" \/ ~ changes.has_weight_trend
        THEN PlateauResult(FALSE, "No plateau detected", 0)
        ELSE IF TrendBelow(changes, threshold)
        THEN IF GoodAdherence(changes.calorie_adherence)
             THEN PlateauResult(TRUE, "True plateau detected (good adherence)", 0)
             ELSE PlateauResult(TRUE, "Plateau detected but adherence is low",
                                PyRound(100 * changes.calorie_adherence[1],
                                        changes.calorie_adherence[2]))
        ELSE PlateauResult(FALSE, "No plateau detected", 0)

\* ProgressTracker.detect_plateau; percent is the number that the
\* low-adherence message embeds (f"{adherence:.0%}"), 0 in the other messages.
ProgressTracker_detect_plateau(lg, threshold, weeks, singular) ==
    LET changes == calculate_trends(lg, weeks * 7, singular)
    IN  IF changes.kind = "raise" THEN Raise
        ELSE IF changes.kind = "empty" \/ ~ changes.has_weight_trend
        THEN PlateauResult(FALSE, "Insufficient data", 0)
        ELSE IF TrendBelow(changes, threshold)
        THEN IF GoodAdherence(changes.calorie_adherence)
             THEN PlateauResult(TRUE, "True plateau detected (good adherence)", 0)
             ELSE PlateauResult(TRUE, "Plateau detected but adherence is low",
                                PyRound(100 * changes.calorie_adherence[1],
                                        changes.calorie_adherence[2]))
        ELSE PlateauResult(FALSE, "No plateau detected", 0)

\* The exceptions a query can end in where a claim tells them apart.
ZeroDivisionError == [kind |-> "raise", error |-> "ZeroDivisionError"]
IndexError == [kind |-> "raise", error |-> "IndexError"]

\* A plausible slip: the quotient is taken without the equal-weight guard.
analyze_body_composition_unguarded(lg, days) ==
    IF TooFewLogs(lg, days) THEN EmptyDict
    ELSE IF lg = <<>> THEN IndexError
    ELSE IF days = 0 THEN ZeroDivisionError
    ELSE
        LET recent == SortByDate(LastN(lg, days))
            start == recent[1]
            end == recent[Len(recent)]
            both_lean == Truthy(end.lean_mass) /\ Truthy(start.lean_mass)
            both_fat == Truthy(end.fat_mass) /\ Truthy(start.fat_mass)
        IN  IF both_lean /\ end.weight = start.weight THEN ZeroDivisionError
            ELSE
            [kind |-> "dict",
             total_weight_change |-> end.weight - start.weight,
             rate_of_change |-> <<7 * (end.weight - start.weight), days>>,
             has_lean |-> both_lean,
             lean_mass_change |->
                 IF both_lean THEN end.lean_mass - start.lean_mass ELSE 0,
             fat_mass_change |->
                 IF both_lean /\ both_fat THEN end.fat_mass - start.fat_mass
                 ELSE 0,
             lean_mass_ratio |->
                 IF both_lean
                 THEN <<end.lean_mass - start.lean_mass,
                        100 * (end.weight - start.weight)>>
                 ELSE <<0, 1>>]

\* analyze_body_composition; changes are in the units of the log fields and
\* the two quotients are <<num, den>> pairs.  has_lean tells whether the
\* keys lean_mass_change, fat_mass_change and lean_mass_ratio are present.
\* With days = 0 the window is the whole list (logs[-0:]): recent[0] is an
\* IndexError on the empty list, and days / 7 = 0.0 makes the weekly rate a
\* ZeroDivisionError on any other.
analyze_body_composition(lg, days) ==
    IF TooFewLogs(lg, days) THEN EmptyDict
    ELSE IF lg = <<>> THEN IndexError
    ELSE IF days = 0 THEN ZeroDivisionError
    ELSE
        LET recent == SortByDate(LastN(lg, days))
            start == recent[1]
            end == recent[Len(recent)]
            both_lean == Truthy(end.lean_mass) /\ Truthy(start.lean_mass)
            both_fat == Truthy(end.fat_mass) /\ Truthy(start.fat_mass)
        IN  [kind |-> "dict",
             total_weight_change |-> end.weight - start.weight,
             rate_of_change |-> <<7 * (end.weight - start.weight), days>>,
             has_lean |-> both_lean,
             lean_mass_change |->
                 IF both_lean THEN end.lean_mass - start.lean_mass ELSE 0,
             fat_mass_change |->
                 IF both_lean /\ both_fat THEN end.fat_mass - start.fat_mass
                 ELSE 0,
             lean_mass_ratio |->
                 IF both_lean /\ end.weight # start.weight
                 THEN <<end.lean_mass - start.lean_mass,
                        100 * (end.weight - start.weight)>>
                 ELSE <<0, 1>>]

\* A plausible slip: logged days are set against the calendar days spanned.
get_adherence_stats_calendar(lg, days) ==
    IF TooFewLogs(lg, days) THEN EmptyDict
    ELSE IF days = 0 THEN ZeroDivisionError
    ELSE
        LET recent == LastN(lg, days)
            n == Len(recent)
        IN  [kind |-> "dict",
             logging_adherence |-> <<n, recent[n].date - recent[1].date + 1>>,
             calorie_adherence |->
                 <<CountPositive([i \in 1..n |-> recent[i].calories]), n>>,
             protein_adherence |->
                 <<CountPositive([i \in 1..n |-> recent[i].protein]), n>>]

\* get_adherence_stats; the three fractions are <<num, den>> pairs.  With
\* days = 0 len(recent) / days is a ZeroDivisionError.
get_adherence_stats(lg, days) ==
    IF TooFewLogs(lg, days) THEN EmptyDict
    ELSE IF days = 0 THEN ZeroDivisionError
    ELSE
        LET recent == LastN(lg, days)
            n == Len(recent)
        IN  [kind |-> "dict",
             logging_adherence |-> <<n, days>>,
             calorie_adherence |->
                 <<CountPositive([i \in 1..n |-> recent[i].calories]), n>>,
             protein_adherence |->
                 <<CountPositive([i \in 1..n |-> recent[i].protein]), n>>]

(***************************************************************************)
(* DynamicAdjuster (adjustment_system.py)                                  *)
(***************************************************************************)
\* DietMode values
DietModes ==
    {"aggressive_cut", "standard_cut", "conservative_cut", "maintenance",
     "lean_bulk", "standard_bulk"}

CutModes == {"aggressive_cut", "standard_cut"}
BulkModes == {"lean_bulk", "standard_bulk"}

\* The rates of calculate_weekly_change are rationals <<num, den>>, den > 0:
\* weight in hundredths of a kilogram per week, masses in tenths of a gram
\* per week.  Targets and thresholds are in grams per week, so a weight rate
\* <<num, den>> is 10 * num / den grams per week.

\* A plausible slip: only the empty list counts as too short.
calculate_weekly_change_nonempty(lg, days) ==
    IF lg = <<>> THEN EmptyDict
    ELSE
        LET recent == SortByDate(LastN(lg, days))
            start == recent[1]
            end == recent[Len(recent)]
            actual_days == end.date - start.date
        IN  IF actual_days = 0 THEN Raise
            ELSE [kind |-> "dict",
                  weight_change |-> <<7 * (end.weight - start.weight), actual_days>>,
                  lean_change |->
                      IF Truthy(end.lean_mass) /\ Truthy(start.lean_mass)
                      THEN <<7 * (end.lean_mass - start.lean_mass), actual_days>>
                      ELSE <<0, 1>>,
                  fat_change |->
                      IF Truthy(end.fat_mass) /\ Truthy(start.fat_mass)
                      THEN <<7 * (end.fat_mass - start.fat_mass), actual_days>>
                      ELSE <<0, 1>>]

\* calculate_weekly_change: {} below days logs; otherwise the change between
\* the first and the last log of the window divided by weeks, which is a
\* ZeroDivisionError when the two carry the same date.
calculate_weekly_change(lg, days) ==
    IF Len(lg) < days THEN EmptyDict
    ELSE
        LET recent == SortByDate(LastN(lg, days))
            start == recent[1]
            end == recent[Len(recent)]
            actual_days == end.date - start.date
        IN  IF actual_days = 0 THEN Raise
            ELSE [kind |-> "dict",
                  weight_change |-> <<7 * (end.weight - start.weight), actual_days>>,
                  lean_change |->
                      IF Truthy(end.lean_mass) /\ Truthy(start.lean_mass)
                      THEN <<7 * (end.lean_mass - start.lean_mass), actual_days>>
                      ELSE <<0, 1>>,
                  fat_change |->
                      IF Truthy(end.fat_mass) /\ Truthy(start.fat_mass)
                      THEN <<7 * (end.fat_mass - start.fat_mass), actual_days>>
                      ELSE <<0, 1>>]

\* check_diet_adherence(days=14), as the rational <<adherent, counted>>
AdherenceDays == 14

check_diet_adherence(lg) ==
    IF Len(lg) < AdherenceDays THEN <<1, 1>>
    ELSE LET recent == LastN(lg, AdherenceDays)
         IN  <<CountPositive([i \in 1..Len(recent) |-> recent[i].calories]),
               Len(recent)>>

\* abs(changes.get('weight_change', 0)) < 0.2
PlateauRate == 200

\* DynamicAdjuster.detect_plateau(weeks)
DynamicAdjuster_detect_plateau(lg, weeks) ==
    LET changes == calculate_weekly_change(lg, weeks * 7)
    IN  IF changes.kind = "raise" THEN Raise
        ELSE IF changes.kind = "empty"
        THEN PlateauResult(FALSE, "Insufficient data", 0)
        ELSE IF 10 * Abs(changes.weight_change[1])
                    < PlateauRate * changes.weight_change[2]
        THEN LET adherence == check_diet_adherence(lg)
             IN  IF GoodAdherence(adherence)
                 THEN PlateauResult(TRUE, "True plateau detected (good adherence)", 0)
                 ELSE PlateauResult(TRUE, "Plateau detected but adherence is low",
                                    PyRound(100 * adherence[1], adherence[2]))
        ELSE PlateauResult(FALSE, "No plateau detected", 0)

\* The target rate, in grams per week, that _calculate_adaptive_adjustment
\* uses for a mode: -0.8 / -0.5 for the two cut modes, 0.25 for lean bulk and
\* 0.5 for every other mode.
AdaptiveTarget(mode) ==
    IF mode \in CutModes
    THEN (IF mode = "aggressive_cut" THEN -800 ELSE -500)
    ELSE (IF mode = "lean_bulk" THEN 250 ELSE 500)

\* base = 200
BaseAdjustment == 200

\* A plausible slip: body fat of exactly 12 counts as lean.
_calculate_adaptive_adjustment_inclusive(weekly_change, mode, body_fat) ==
    LET f_bf == IF body_fat <= 12 THEN 7
                ELSE IF body_fat > 25 THEN 13
                ELSE 10
        target == AdaptiveTarget(mode)
        deviation_num == Abs(10 * weekly_change[1] - target * weekly_change[2])
        f_dev == IF deviation_num > 500 * weekly_change[2] THEN 15
                 ELSE IF deviation_num < 200 * weekly_change[2] THEN 7
                 ELSE 10
    IN  PyRound(BaseAdjustment * f_bf * f_dev, 100)

\* _calculate_adaptive_adjustment: the two scale factors in tenths, so that
\* the result is round(200 * f_bf * f_dev / 100).
_calculate_adaptive_adjustment(weekly_change, mode, body_fat) ==
    LET f_bf == IF body_fat < 12 THEN 7
                ELSE IF body_fat > 25 THEN 13
                ELSE 10
        target == AdaptiveTarget(mode)
        deviation_num == Abs(10 * weekly_change[1] - target * weekly_change[2])
        f_dev == IF deviation_num > 500 * weekly_change[2] THEN 15
                 ELSE IF deviation_num < 200 * weekly_change[2] THEN 7
                 ELSE 10
    IN  PyRound(BaseAdjustment * f_bf * f_dev, 100)

\* A plausible slip: the two comparisons of the weight-loss rule are swapped.
_handle_weight_loss_adjustments_swapped(adjs, weekly_change, target_loss, base_adjustment) ==
    IF 20 * weekly_change[1] < target_loss * weekly_change[2]
    THEN Append(adjs, Adjustment(-base_adjustment, 0,
                                 "Weight loss too slow", "medium"))
    ELSE IF 20 * weekly_change[1] > 3 * target_loss * weekly_change[2]
    THEN Append(adjs, Adjustment(base_adjustment, PyRound(base_adjustment, 40),
                                 "Weight loss too fast", "high"))
    ELSE adjs

\* A plausible slip: a week exactly at half the target counts as too slow.
_handle_weight_loss_adjustments_inclusive(adjs, weekly_change, target_loss, base_adjustment) ==
    IF 20 * weekly_change[1] >= target_loss * weekly_change[2]
    THEN Append(adjs, Adjustment(-base_adjustment, 0,
                                 "Weight loss too slow", "medium"))
    ELSE IF 20 * weekly_change[1] < 3 * target_loss * weekly_change[2]
    THEN Append(adjs, Adjustment(base_adjustment, PyRound(base_adjustment, 40),
                                 "Weight loss too fast", "high"))
    ELSE adjs

\* _handle_weight_loss_adjustments: weekly_change > target_loss * 0.5, else
\* weekly_change < target_loss * 1.5; the list with what the rule appends.
_handle_weight_loss_adjustments(adjs, weekly_change, target_loss, base_adjustment) ==
    IF 20 * weekly_change[1] > target_loss * weekly_change[2]
    THEN Append(adjs, Adjustment(-base_adjustment, 0,
                                 "Weight loss too slow", "medium"))
    ELSE IF 20 * weekly_change[1] < 3 * target_loss * weekly_change[2]
    THEN Append(adjs, Adjustment(base_adjustment, PyRound(base_adjustment, 40),
                                 "Weight loss too fast", "high"))
    ELSE adjs

\* A plausible slip: the bulk rule copies the signs of the cut rule.
_handle_weight_gain_adjustments_unflipped(adjs, weekly_change, target_gain, base_adjustment) ==
    IF 20 * weekly_change[1] < target_gain * weekly_change[2]
    THEN Append(adjs, Adjustment(-base_adjustment, 0,
                                 "Weight gain too slow", "medium"))
    ELSE IF 20 * weekly_change[1] > 3 * target_gain * weekly_change[2]
    THEN Append(adjs, Adjustment(base_adjustment, 0,
                                 "Weight gain too fast", "high"))
    ELSE adjs

\* _handle_weight_gain_adjustments: weekly_change < target_gain * 0.5, else
\* weekly_change > target_gain * 1.5.
_handle_weight_gain_adjustments(adjs, weekly_change, target_gain, base_adjustment) ==
    IF 20 * weekly_change[1] < target_gain * weekly_change[2]
    THEN Append(adjs, Adjustment(base_adjustment, 0,
                                 "Weight gain too slow", "medium"))
    ELSE IF 20 * weekly_change[1] > 3 * target_gain * weekly_change[2]
    THEN Append(adjs, Adjustment(-base_adjustment, 0,
                                 "Weight gain too fast", "high"))
    ELSE adjs

\* A plausible slip: body fat of exactly 20 takes the smaller protein step.
_handle_body_composition_adjustments_inclusive(adjs, changes, mode, body_fat) ==
    IF changes.lean_change[1] < 0 /\ mode # "aggressive_cut"
    THEN Append(adjs, Adjustment(200, IF body_fat >= 20 THEN 25 ELSE 35,
                                 "Losing lean mass", "high"))
    ELSE adjs

\* _handle_body_composition_adjustments
_handle_body_composition_adjustments(adjs, changes, mode, body_fat) ==
    IF changes.lean_change[1] < 0 /\ mode # "aggressive_cut"
    THEN Append(adjs, Adjustment(200, IF body_fat > 20 THEN 25 ELSE 35,
                                 "Losing lean mass", "high"))
    ELSE adjs

\* _handle_plateau_adjustments; detect_plateau() cannot raise here, because
\* calculate_adjustments has already divided by the span of the last 7 logs.
_handle_plateau_adjustments(adjs, lg, mode) ==
    LET plateau == DynamicAdjuster_detect_plateau(lg, 3)
    IN  IF plateau.kind = "tuple" /\ plateau.plateau
        THEN IF GoodAdherence(check_diet_adherence(lg))
             THEN IF mode \in CutModes
                  THEN Append(adjs, Adjustment(-300, 0,
                           "Progress has plateaued with good adherence", "medium"))
                  ELSE IF mode \in BulkModes
                  THEN Append(adjs, Adjustment(300, 0,
                           "Progress has plateaued with good adherence", "medium"))
                  ELSE adjs
             ELSE Append(adjs, Adjustment(0, 0,
                      "Apparent plateau but adherence is low", "low"))
        ELSE adjs

\* calculate_weekly_change() of calculate_adjustments: days=7
WeeklyDays == 7

\* A plausible slip: the body fat of the stats is used.
calculate_adjustments_stats(lg, stats_body_fat, mode) ==
    LET changes == calculate_weekly_change(lg, WeeklyDays)
    IN  IF changes.kind = "raise" THEN Raise
        ELSE IF changes.kind = "empty" THEN [kind |-> "list", value |-> <<>>]
        ELSE
            LET weekly_change == changes.weight_change
                current_body_fat == stats_body_fat
                base_adjustment ==
                    _calculate_adaptive_adjustment(weekly_change, mode,
                                                   current_body_fat)
                rate ==
                    IF mode \in CutModes
                    THEN _handle_weight_loss_adjustments(
                             <<>>, weekly_change,
                             IF mode = "aggressive_cut" THEN -800 ELSE -500,
                             base_adjustment)
                    ELSE IF mode \in BulkModes
                    THEN _handle_weight_gain_adjustments(
                             <<>>, weekly_change,
                             IF mode = "lean_bulk" THEN 250 ELSE 500,
                             base_adjustment)
                    ELSE <<>>
                composition ==
                    _handle_body_composition_adjustments(rate, changes, mode,
                                                         current_body_fat)
            IN  [kind |-> "list",
                 value |-> _handle_plateau_adjustments(composition, lg, mode)]

\* A plausible slip: the plateau rule runs before the body-composition rule.
calculate_adjustments_reordered(lg, stats_body_fat, mode) ==
    LET changes == calculate_weekly_change(lg, WeeklyDays)
    IN  IF changes.kind = "raise" THEN Raise
        ELSE IF changes.kind = "empty" THEN [kind |-> "list", value |-> <<>>]
        ELSE
            LET weekly_change == changes.weight_change
                current_body_fat ==
                    IF lg # <<>> THEN lg[Len(lg)].body_fat ELSE stats_body_fat
                base_adjustment ==
                    _calculate_adaptive_adjustment(weekly_change, mode,
                                                   current_body_fat)
                rate ==
                    IF mode \in CutModes
                    THEN _handle_weight_loss_adjustments(
                             <<>>, weekly_change,
                             IF mode = "aggressive_cut" THEN -800 ELSE -500,
                             base_adjustment)
                    ELSE IF mode \in BulkModes
                    THEN _handle_weight_gain_adjustments(
                             <<>>, weekly_change,
                             IF mode = "lean_bulk" THEN 250 ELSE 500,
                             base_adjustment)
                    ELSE <<>>
                plateau == _handle_plateau_adjustments(rate, lg, mode)
            IN  [kind |-> "list",
                 value |-> _handle_body_composition_adjustments(
                               plateau, changes, mode, current_body_fat)]

\* calculate_adjustments(stats, mode); stats_body_fat is stats.body_fat.
calculate_adjustments(lg, stats_body_fat, mode) ==
    LET changes == calculate_weekly_change(lg, WeeklyDays)
    IN  IF changes.kind = "raise" THEN Raise
        ELSE IF changes.kind = "empty" THEN [kind |-> "list", value |-> <<>>]
        ELSE
            LET weekly_change == changes.weight_change
                current_body_fat ==
                    IF lg # <<>> THEN lg[Len(lg)].body_fat ELSE stats_body_fat
                base_adjustment ==
                    _calculate_adaptive_adjustment(weekly_change, mode,
                                                   current_body_fat)
                rate ==
                    IF mode \in CutModes
                    THEN _handle_weight_loss_adjustments(
                             <<>>, weekly_change,
                             IF mode = "aggressive_cut" THEN -800 ELSE -500,
                             base_adjustment)
                    ELSE IF mode \in BulkModes
                    THEN _handle_weight_gain_adjustments(
                             <<>>, weekly_change,
                             IF mode = "lean_bulk" THEN 250 ELSE 500,
                             base_adjustment)
                    ELSE <<>>
                composition ==
                    _handle_body_composition_adjustments(rate, changes, mode,
                                                         current_body_fat)
            IN  [kind |-> "list",
                 value |-> _handle_plateau_adjustments(composition, lg, mode)]

(***************************************************************************)
(* Specification SpecEst: the ProgressTracker queries on bounded log lists *)
(***************************************************************************)
MaxLogs == 8
MaxZeroDays == 2

Min(a, b) == IF a < b THEN a ELSE b

\* 80.0 kg and 80.2 kg
LogWeights == {8000, 8020}
\* body-fat percent and protein grams of a logged day
LogBodyFats == {20}
LogProteins == {150}

\* <<calories of a logged day, number of trailing days logged with 0 kcal>>
CalorieProfiles ==
    {<<MinTdee, 0>>, <<MaxTdee, 0>>} \cup {<<2002, k>> : k \in 0..MaxZeroDays}

\* "daily": one log per day; "gap": a day is skipped before the last log;
\* "same": every log carries the same date (add_log keeps duplicates).
DatePatterns == {"daily", "gap", "same"}

DateOf(pattern, i, n) ==
    IF pattern = "same" THEN 0
    ELSE IF pattern = "gap" /\ i = n THEN i
    ELSE IF pattern = "fortnight" /\ i = n THEN i + 7
    ELSE i - 1

\* The tracker's list for n logs with weights w[i], the given date pattern
\* and calorie profile.
EstLogs(n, w, pattern, profile) ==
    ProgressTracker(
        [i \in 1..n |->
            LET logged == i <= n - profile[2]
                body_fat == CHOOSE b \in LogBodyFats : TRUE
                protein == CHOOSE g \in LogProteins : TRUE
            IN  DailyLog(DateOf(pattern, i, n), w[i], body_fat,
                         IF logged THEN profile[1] ELSE 0,
                         IF logged THEN protein ELSE 0,
                         NoneVal, NoneVal)])

\* Lists of up to MaxConstLogs daily logs that all carry the same weight and
\* the same calories.
MaxConstLogs == 14
ConstCalories == {MinTdee, 2000, MaxTdee}

ConstLogs(n, weight, calories) ==
    ProgressTracker(
        [i \in 1..n |->
            DailyLog(i - 1, weight, CHOOSE b \in LogBodyFats : TRUE, calories,
                     CHOOSE g \in LogProteins : TRUE, NoneVal, NoneVal)])

\* MaxConstLogs daily logs of one weight, one of them logged without calories
\* and protein.
LapseLogs(n, weight, lapse) ==
    ProgressTracker(
        [i \in 1..n |->
            DailyLog(i - 1, weight, CHOOSE b \in LogBodyFats : TRUE,
                     IF i = lapse THEN 0 ELSE 2002,
                     IF i = lapse THEN 0 ELSE CHOOSE g \in LogProteins : TRUE,
                     NoneVal, NoneVal)])

InitEst ==
    /\ \/ \E n \in 0..MaxLogs :
            \E w \in [1..n -> LogWeights] :
              \E pattern \in DatePatterns :
                \E profile \in CalorieProfiles :
                   /\ profile[2] <= n
                   /\ logs = EstLogs(n, w, pattern, profile)
       \/ \E n \in 0..MaxConstLogs :
            \E weight \in LogWeights :
              \E calories \in ConstCalories :
                 logs = ConstLogs(n, weight, calories)
       \/ \E weight \in LogWeights :
            \E lapse \in 1..MaxConstLogs :
               logs = LapseLogs(MaxConstLogs, weight, lapse)
    /\ adjustments = <<>>
    /\ call = NoCall
    /\ ret = NoRet
    /\ NoMacroTracker

\* Window lengths asked for: a single day, one short of a week, a week, and
\* the default of calculate_tdee.
QueryDays == {1, MinTdeeLogs - 1, MinTdeeLogs, 14}
\* weeks = 3 is the default of detect_plateau.
QueryWeeks == {1, 2, 3}
\* thresholds in grams per week; 200 is the default 0.2 kg/week.
QueryThresholds == {150, 200}

CalculateTdee ==
    /\ call = NoCall
    /\ \E days \in QueryDays, singular \in SingularOutcomes :
          /\ call' = [name |-> "calculate_tdee", days |-> days]
          /\ ret' = calculate_tdee(logs, days, singular)
    /\ UNCHANGED <<logs, adjustments, heap, macro, pc, reader>>

CalculateTrends ==
    /\ call = NoCall
    /\ \E days \in QueryDays, singular \in SingularOutcomes :
          /\ call' = [name |-> "calculate_trends", days |-> days]
          /\ ret' = calculate_trends(logs, days, singular)
    /\ UNCHANGED <<logs, adjustments, heap, macro, pc, reader>>

DetectPlateau ==
    /\ call = NoCall
    /\ \E threshold \in QueryThresholds, weeks \in QueryWeeks,
          singular \in SingularOutcomes :
          /\ call' = [name |-> "detect_plateau", threshold |-> threshold,
                      weeks |-> weeks]
          /\ ret' = ProgressTracker_detect_plateau(logs, threshold, weeks, singular)
    /\ UNCHANGED <<logs, adjustments, heap, macro, pc, reader>>

AnalyzeBodyComposition ==
    /\ call = NoCall
    /\ \E days \in QueryDays :
          /\ call' = [name |-> "analyze_body_composition", days |-> days]
          /\ ret' = analyze_body_composition(logs, days)
    /\ UNCHANGED <<logs, adjustments, heap, macro, pc, reader>>

GetAdherenceStats ==
    /\ call = NoCall
    /\ \E days \in QueryDays :
          /\ call' = [name |-> "get_adherence_stats", days |-> days]
          /\ ret' = get_adherence_stats(logs, days)
    /\ UNCHANGED <<logs, adjustments, heap, macro, pc, reader>>

NextEst ==
    \/ CalculateTdee
    \/ CalculateTrends
    \/ DetectPlateau
    \/ AnalyzeBodyComposition
    \/ GetAdherenceStats

SpecEst == InitEst /\ [][NextEst]_vars

PlateauCalled == call.name = "detect_plateau"
TdeeCalled == call.name = "calculate_tdee"
TrendsCalled == call.name = "calculate_trends"

MsgInsufficient == "Insufficient data"
MsgNoPlateau == "No plateau detected"
MsgTruePlateau == "True plateau detected (good adherence)"
MsgLowAdherence == "Plateau detected but adherence is low"

\* C4: with at least weeks*7 logs detect_plateau reports plateau = true exactly
\* when the absolute weekly weight trend is strictly below the threshold (a
\* trend equal to the threshold is no plateau), and a reported plateau carries
\* the good-adherence message exactly when calorie adherence is strictly above
\* 0.9, the low-adherence message otherwise.
C4_PlateauThreshold ==
    (PlateauCalled /\ Len(logs) >= call.weeks * 7 /\ ret.kind = "tuple") =>
        LET trends == calculate_trends(logs, call.weeks * 7, "nan")
            below == /\ ~ trends.trend_nan
                     /\ 10 * Abs(trends.trend_num)
                            < call.threshold * trends.trend_den
            adh == trends.calorie_adherence
        IN  /\ ret.message # MsgInsufficient
            /\ ret.plateau <=> below
            /\ ret.plateau =>
                  /\ (ret.message = MsgTruePlateau) <=> (10 * adh[1] > 9 * adh[2])
                  /\ (ret.message = MsgLowAdherence) <=> (10 * adh[1] <= 9 * adh[2])

\* The weekly trend equals the threshold exactly, and no plateau is reported.
C4_Witness ==
    /\ PlateauCalled
    /\ Len(logs) >= call.weeks * 7
    /\ ret.kind = "tuple"
    /\ LET trends == calculate_trends(logs, call.weeks * 7, "nan")
       IN  /\ ~ trends.trend_nan
           /\ 10 * Abs(trends.trend_num) = call.threshold * trends.trend_den
    /\ ret.plateau = FALSE
    /\ ret.message = MsgNoPlateau

PlateauOutcomes ==
    {<<FALSE, MsgInsufficient>>, <<FALSE, MsgNoPlateau>>,
     <<TRUE, MsgTruePlateau>>, <<TRUE, MsgLowAdherence>>}

\* C5: detect_plateau returns one of four different outcomes (insufficient
\* data, no plateau, true plateau, low-adherence plateau); the insufficient-data
\* outcome is returned exactly when there are fewer than weeks*7 logs, and it
\* differs from the no-plateau outcome and from both plateau outcomes.
C5_FourOutcomes ==
    (PlateauCalled /\ ret.kind = "tuple") =>
        /\ <<ret.plateau, ret.message>> \in PlateauOutcomes
        /\ (ret.message = MsgInsufficient) <=> (Len(logs) < call.weeks * 7)
        /\ (Len(logs) < call.weeks * 7) =>
              /\ <<ret.plateau, ret.message>> # <<FALSE, MsgNoPlateau>>
              /\ ret.plateau = FALSE

\* Some logs, but fewer than the window: the insufficient-data outcome.
C5_Witness ==
    /\ PlateauCalled
    /\ Len(logs) > 0
    /\ Len(logs) < call.weeks * 7
    /\ ret = PlateauResult(FALSE, MsgInsufficient, 0)

\* C6: on a list shorter than the window every estimator returns its sentinel
\* and does not raise: calculate_tdee None with fewer than 7 logs in the list
\* or in the window, calculate_trends, analyze_body_composition and
\* get_adherence_stats the empty mapping with fewer than days logs,
\* detect_plateau the insufficient-data outcome with fewer than weeks*7 logs.
C6_ShortListSentinel ==
    /\ (TdeeCalled /\ Min(Len(logs), call.days) < MinTdeeLogs) => ret = PyNone
    /\ (call.name \in {"calculate_trends", "analyze_body_composition",
                       "get_adherence_stats"}
        /\ Len(logs) < call.days) => ret = EmptyDict
    /\ (PlateauCalled /\ Len(logs) < call.weeks * 7) =>
          ret = PlateauResult(FALSE, MsgInsufficient, 0)

\* A non-empty list shorter than the window asked of calculate_trends.
C6_Witness ==
    /\ TrendsCalled
    /\ Len(logs) > 1
    /\ Len(logs) < call.days
    /\ ret = EmptyDict

\* The window calculate_tdee works on, its regression, and
\* round(avg_calories - daily_cal_adjustment) before the plausibility guard.
TdeeWindowOf(lg, days) == SortByDate(LastN(lg, days))

TdeeFitOf(w) ==
    polyfit([i \in 1..Len(w) |-> w[i].date - w[1].date],
            [i \in 1..Len(w) |-> w[i].weight], "raise")

TdeeUnguardedOf(w, fit) ==
    RoundTdee(SumSeq([i \in 1..Len(w) |-> w[i].calories]), Len(w),
              fit.num, fit.den)

\* The regression ran: at least 7 logs in the window, on two or more dates.
TdeeComputedOn(w, fit) ==
    /\ TdeeCalled
    /\ Len(w) >= MinTdeeLogs
    /\ fit.kind = "ok"

\* C7: whatever calculate_tdee returns is None or an integer in [500, 10000];
\* an estimate of exactly 500 or exactly 10000 is returned as a number, and an
\* estimate outside the range is returned as None.
C7_TdeeRange ==
    /\ (TdeeCalled /\ ret.kind # "raise") =>
          \/ ret = PyNone
          \/ ret.kind = "value" /\ MinTdee <= ret.value /\ ret.value <= MaxTdee
    /\ TdeeCalled =>
          LET w == TdeeWindowOf(logs, call.days)
              fit == TdeeFitOf(w)
              tdee == TdeeUnguardedOf(w, fit)
          IN  TdeeComputedOn(w, fit) =>
                /\ (tdee \in {MinTdee, MaxTdee}) =>
                      ret = [kind |-> "value", value |-> tdee]
                /\ (tdee < MinTdee \/ tdee > MaxTdee) => ret = PyNone

\* The estimate is exactly the lower bound and is returned.
C7_Witness ==
    /\ TdeeCalled
    /\ ret = [kind |-> "value", value |-> MinTdee]
    /\ LET w == TdeeWindowOf(logs, call.days)
           fit == TdeeFitOf(w)
       IN  TdeeComputedOn(w, fit) /\ TdeeUnguardedOf(w, fit) = MinTdee

\* The constants added to every log's calories.
CalorieShifts == {1, 100}

AddCalories(lg, c) == [i \in DOMAIN lg |-> [lg[i] EXCEPT !.calories = @ + c]]

\* avg_calories - daily_cal_adjustment of the window lies exactly halfway
\* between two integers.
TdeeIsTie(w, fit) ==
    LET n == Len(w)
        d == KcalPerUnitDen * fit.den
        ar == (KcalPerUnitNum * fit.num) % d
        sr == SumSeq([i \in 1..n |-> w[i].calories]) % n
    IN  2 * ((sr * d - ar * n) % (n * d)) = n * d

\* C8 as stated: with dates and weights fixed, adding c to every log's calories
\* raises the returned estimate by exactly c.
C8_ExactShift ==
    (TdeeCalled /\ ret.kind = "value") =>
        \A c \in CalorieShifts :
            calculate_tdee(AddCalories(logs, c), call.days, "raise")
                = [kind |-> "value", value |-> ret.value + c]

\* C8 amended: when the estimate before and the estimate after the shift are
\* both numbers, the estimate rises by exactly c unless the unrounded estimate
\* is a tie, where round-half-to-even may give c - 1 or c + 1; the shifted
\* estimate is None only when it leaves [500, 10000].
C8_ShiftUpToRounding ==
    (TdeeCalled /\ ret.kind = "value") =>
        LET w == TdeeWindowOf(logs, call.days)
            tie == TdeeIsTie(w, TdeeFitOf(w))
        IN  \A c \in CalorieShifts :
              LET shifted ==
                      calculate_tdee(AddCalories(logs, c), call.days, "raise")
              IN  /\ shifted.kind \in {"value", "None"}
                  /\ shifted.kind = "value" =>
                        /\ Abs(shifted.value - (ret.value + c)) <= 1
                        /\ ~ tie => shifted.value = ret.value + c
                  /\ shifted.kind = "None" => ret.value + c + 1 > MaxTdee

\* A tie: the estimate 1501.5 is rounded to 1502 and, one kcal up, 1502.5 is
\* rounded to 1502 again.
C8_Witness ==
    /\ TdeeCalled
    /\ ret.kind = "value"
    /\ LET w == TdeeWindowOf(logs, call.days) IN TdeeIsTie(w, TdeeFitOf(w))
    /\ calculate_tdee(AddCalories(logs, 1), call.days, "raise")
          = [kind |-> "value", value |-> ret.value]

\* The window of the last days logs: one log per day, one weight, one calorie
\* value between 500 and 10000.
ConstantWindow(days) ==
    LET w == LastN(logs, days)
    IN  /\ \A i \in DOMAIN w :
              /\ w[i].weight = w[1].weight
              /\ w[i].calories = w[1].calories
              /\ w[i].date = w[1].date + i - 1
        /\ w # <<>> => (MinTdee <= w[1].calories /\ w[1].calories <= MaxTdee)

\* C9: on a window of n >= 7 consecutive daily logs of constant weight and
\* constant calories c in [500, 10000], calculate_tdee returns c and
\* calculate_trends reports a weight trend of 0.
C9_ConstantLogs ==
    /\ (TdeeCalled /\ Len(LastN(logs, call.days)) >= MinTdeeLogs
                   /\ ConstantWindow(call.days)) =>
          ret = [kind |-> "value", value |-> logs[Len(logs)].calories]
    /\ (TrendsCalled /\ call.days >= MinTdeeLogs /\ Len(logs) >= call.days
                     /\ ConstantWindow(call.days)) =>
          /\ ret.kind = "dict"
          /\ ret.has_weight_trend
          /\ ~ ret.trend_nan
          /\ ret.trend_num = 0

\* Scenario A: 14 daily logs at 80.0 kg and 2000 kcal, calculate_tdee(14).
C9_Witness ==
    /\ TdeeCalled
    /\ call.days = 14
    /\ Len(logs) = 14
    /\ ConstantWindow(14)
    /\ logs[1].weight = 8000
    /\ logs[1].calories = 2000
    /\ ret = [kind |-> "value", value |-> 2000]

(***************************************************************************)
(* Specification SpecNet: get_net_adjustment applied to bounded lists       *)
(***************************************************************************)
MaxAdjustments == 3

Severities == {"low", "medium", "high"}
CalorieDeltas == {-300, 200}
ProteinDeltas == {0, 25}

AdjustmentInputs ==
    {Adjustment(c, p, "input", s) :
        c \in CalorieDeltas, p \in ProteinDeltas, s \in Severities}

AdjustmentLists ==
    UNION {[1..n -> AdjustmentInputs] : n \in 0..MaxAdjustments}

InitNet ==
    /\ adjustments \in AdjustmentLists
    /\ logs = <<>>
    /\ call = NoCall
    /\ ret = NoRet
    /\ NoMacroTracker

GetNetAdjustment ==
    /\ call = NoCall
    /\ call' = [name |-> "get_net_adjustment"]
    /\ ret' = [kind |-> "net", value |-> get_net_adjustment(adjustments)]
    /\ UNCHANGED <<logs, adjustments, heap, macro, pc, reader>>

NextNet == GetNetAdjustment

SpecNet == InitNet /\ [][NextNet]_vars

\* The lists obtained from s by reordering its records.
Reorderings(s) ==
    LET n == Len(s)
        bij == {f \in [1..n -> 1..n] : \A i, j \in 1..n : f[i] = f[j] => i = j}
    IN  {[i \in 1..n |-> s[f[i]]] : f \in bij}

HasSeverity(adjs, sev) == \E i \in DOMAIN adjs : adjs[i].severity = sev

NetCalled == call.name = "get_net_adjustment"

\* C1: when the list holds a High and a Medium record, the net values are the
\* maxima over the High records alone, and every reordering of the list nets
\* to the same values.
C1_HighOverMedium ==
    (NetCalled /\ HasSeverity(adjustments, "high")
               /\ HasSeverity(adjustments, "medium")) =>
        /\ ret.value = TierNet(OfSeverity(adjustments, "high"))
        /\ \A p \in Reorderings(adjustments) : get_net_adjustment(p) = ret.value

\* A Medium record placed first, with larger deltas than the High record after it.
C1_Witness ==
    /\ NetCalled
    /\ Len(adjustments) >= 2
    /\ adjustments[1].severity = "medium"
    /\ adjustments[1].calories = 200
    /\ adjustments[1].protein = 25
    /\ adjustments[2].severity = "high"
    /\ ~ \E i \in DOMAIN adjustments :
            adjustments[i].severity = "high" /\ adjustments[i].calories = 200
    /\ ret.value.calories = -300

\* C2: the empty list and every list of Low records only net to 0 / 0.
C2_EmptyOrLowIsZero ==
    (NetCalled /\ \A i \in DOMAIN adjustments : adjustments[i].severity = "low") =>
        ret.value = [calories |-> 0, protein |-> 0]

\* A Low-only list whose records carry non-zero deltas.
C2_Witness ==
    /\ NetCalled
    /\ Len(adjustments) >= 2
    /\ \A i \in DOMAIN adjustments :
          /\ adjustments[i].severity = "low"
          /\ adjustments[i].calories = 200
          /\ adjustments[i].protein = 25
    /\ ret.value = [calories |-> 0, protein |-> 0]

WinningTier(adjs) ==
    IF HasSeverity(adjs, "high") THEN "high" ELSE "medium"

\* C3: within the winning tier (High if present, else Medium) the calories are
\* the largest signed calorie delta of the tier and the protein the largest
\* signed protein delta of the tier, each attained by some record of the tier.
C3_IndependentMaxima ==
    (NetCalled /\ (HasSeverity(adjustments, "high")
                   \/ HasSeverity(adjustments, "medium"))) =>
        LET tier == {adjustments[i] : i \in
                        {j \in DOMAIN adjustments :
                            adjustments[j].severity = WinningTier(adjustments)}}
        IN  /\ \E a \in tier : a.calories = ret.value.calories
            /\ \A a \in tier : a.calories <= ret.value.calories
            /\ \E a \in tier : a.protein = ret.value.protein
            /\ \A a \in tier : a.protein <= ret.value.protein

\* The two maxima come from different records: no record of the winning tier
\* carries both returned values.
C3_Witness ==
    /\ NetCalled
    /\ HasSeverity(adjustments, "medium")
    /\ ~ HasSeverity(adjustments, "high")
    /\ ret.value = [calories |-> 200, protein |-> 25]
    /\ ~ \E i \in DOMAIN adjustments :
            /\ adjustments[i].severity = "medium"
            /\ adjustments[i].calories = 200
            /\ adjustments[i].protein = 25

(***************************************************************************)
(* Specification SpecAdj: a tracker's list of logs is chosen, then the     *)
(* adjuster built on it is queried once.                                   *)
(***************************************************************************)
\* The plateau rule looks at weeks * 7 = 21 logs.
PlateauDays == 21

\* Logs beyond the 21 of the plateau window.
ExtraLogs == 1

\* Lengths at and just below each window of the adjuster.
AdjLengths ==
    {0} \cup UNION {{c - 1, c} : c \in {WeeklyDays, AdherenceDays, PlateauDays}}
        \cup {PlateauDays + j : j \in 1..ExtraLogs}

\* Weight of the first of the last seven logs, in hundredths of a kilogram,
\* and what the last log adds to it.
AdjStartWeight == {8000}
WeeklyDeltas == {-130, -120, -75, -40, -30, -25, -10, 0, 10, 25, 70, 75}

\* What the logs before the last seven weigh more than AdjStartWeight.
EarlyDeltas == {0, 300}

\* Body fat of the logs before the last, and of the last; 0 is a log without
\* a body-fat reading.
BodyFatPairs == {<<0, 0>>, <<11, 11>>, <<14, 12>>, <<20, 20>>, <<25, 25>>, <<26, 26>>}

\* The last seven logs span 6 days ("daily"), 7 ("gap"), 14 ("fortnight")
\* or none ("same").
AdjDatePatterns == DatePatterns \cup {"fortnight"}

\* Trailing logs of the list that carry no calories.
MaxAdjZeroDays == 2

AdjLogs(n, dEarly, dWeek, bf, pattern, zeroDays) ==
    ProgressTracker(
        [i \in 1..n |->
            LET w0 == CHOOSE w \in AdjStartWeight : TRUE
                weight == IF i = n THEN w0 + dWeek
                          ELSE IF i > n - WeeklyDays THEN w0
                          ELSE w0 + dEarly
                logged == i <= n - zeroDays
            IN  DailyLog(DateOf(pattern, i, n), weight,
                         IF i = n THEN bf[2] ELSE bf[1],
                         IF logged THEN 2000 ELSE 0,
                         IF logged THEN CHOOSE g \in LogProteins : TRUE ELSE 0,
                         NoneVal, NoneVal)])

InitAdj ==
    /\ \E n \in AdjLengths, dEarly \in EarlyDeltas, dWeek \in WeeklyDeltas,
          bf \in BodyFatPairs, pattern \in AdjDatePatterns,
          zeroDays \in 0..MaxAdjZeroDays :
          logs = AdjLogs(n, dEarly, dWeek, bf, pattern, Min(zeroDays, n))
    /\ adjustments = <<>>
    /\ call = NoCall
    /\ ret = NoRet
    /\ NoMacroTracker

\* stats.body_fat of the UserStats passed to calculate_adjustments
StatsBodyFats == {15, 30}

CalculateAdjustments ==
    /\ call = NoCall
    /\ \E stats_body_fat \in StatsBodyFats, mode \in DietModes :
          LET result == calculate_adjustments(logs, stats_body_fat, mode)
          IN  /\ call' = [name |-> "calculate_adjustments", mode |-> mode,
                          stats_body_fat |-> stats_body_fat]
              /\ ret' = result
              /\ adjustments' = IF result.kind = "list" THEN result.value
                                ELSE adjustments
    /\ UNCHANGED <<logs, heap, macro, pc, reader>>

CalculateWeeklyChange ==
    /\ call = NoCall
    /\ \E days \in {WeeklyDays, PlateauDays} :
          /\ call' = [name |-> "calculate_weekly_change", days |-> days]
          /\ ret' = calculate_weekly_change(logs, days)
    /\ UNCHANGED <<logs, adjustments, heap, macro, pc, reader>>

AdjusterDetectPlateau ==
    /\ call = NoCall
    /\ \E weeks \in QueryWeeks :
          /\ call' = [name |-> "adjuster.detect_plateau", weeks |-> weeks]
          /\ ret' = DynamicAdjuster_detect_plateau(logs, weeks)
    /\ UNCHANGED <<logs, adjustments, heap, macro, pc, reader>>

NextAdj ==
    \/ CalculateAdjustments
    \/ CalculateWeeklyChange
    \/ AdjusterDetectPlateau

SpecAdj == InitAdj /\ [][NextAdj]_vars

AdjCalled == call.name = "calculate_adjustments"

\* The first and the last of the seven logs calculate_adjustments looks at.
WeekStart == logs[Len(logs) - WeeklyDays + 1]
WeekEnd == logs[Len(logs)]

\* Scenario B: standard cut, and the last seven logs change weight by exactly
\* -0.1 kg per week (7 * dw hundredths of a kilogram over the days spanned).
ScenarioB ==
    /\ AdjCalled
    /\ call.mode = "standard_cut"
    /\ Len(logs) >= WeeklyDays
    /\ WeekEnd.date > WeekStart.date
    /\ 7 * (WeekEnd.weight - WeekStart.weight)
           = -10 * (WeekEnd.date - WeekStart.date)

\* Lean mass is recorded at both ends of the week and has fallen.
LeanFalling ==
    /\ Truthy(WeekStart.lean_mass) /\ Truthy(WeekEnd.lean_mass)
    /\ WeekEnd.lean_mass < WeekStart.lean_mass

\* The last 21 logs change weight by less than 0.2 kg per week.
PlateauSeen ==
    /\ Len(logs) >= PlateauDays
    /\ LET first == logs[Len(logs) - PlateauDays + 1]
       IN  7 * Abs(WeekEnd.weight - first.weight)
               < 20 * (WeekEnd.date - first.date)

\* The adaptive size at 0.4 kg/week off target: 200 scaled by body fat alone.
ScenarioBSize ==
    LET body_fat == WeekEnd.body_fat
    IN  IF body_fat < 12 THEN 140 ELSE IF body_fat > 25 THEN 260 ELSE 200

FollowUpReasons ==
    {"Losing lean mass", "Progress has plateaued with good adherence",
     "Apparent plateau but adherence is low"}

\* C10 as stated: in STANDARD_CUT with a weekly change of -0.1 kg/week,
\* calculate_adjustments returns exactly one record, of Medium severity, with
\* calories equal to minus the adaptive adjustment size.
C10_ExactlyOneMedium ==
    ScenarioB =>
        /\ ret.kind = "list"
        /\ Len(ret.value) = 1
        /\ ret.value[1].severity = "medium"
        /\ ret.value[1].calories = -ScenarioBSize

\* C10, amended: in STANDARD_CUT with a weekly change of -0.1 kg/week the
\* list starts with the one rate-of-progress record, Medium, calories minus
\* the adaptive size and protein 0, and never holds the High "too fast"
\* record; a High body-composition record follows it when lean mass fell over
\* the week, and a plateau record when the last 21 logs change by less than
\* 0.2 kg/week, so the rate record stands alone exactly when neither happens.
C10_RateRecordFirst ==
    ScenarioB =>
        /\ ret.kind = "list"
        /\ Len(ret.value) >= 1
        /\ ret.value[1] = Adjustment(-ScenarioBSize, 0,
                                     "Weight loss too slow", "medium")
        /\ \A i \in 2..Len(ret.value) : ret.value[i].reason \in FollowUpReasons
        /\ Len(ret.value) = 1 + (IF LeanFalling THEN 1 ELSE 0)
                              + (IF PlateauSeen THEN 1 ELSE 0)

\* Scenario B with the rate record standing alone.
C10_Witness ==
    /\ ScenarioB
    /\ ret.kind = "list"
    /\ Len(ret.value) = 1
    /\ ret.value[1].severity = "medium"
    /\ ret.value[1].calories = -ScenarioBSize

(***************************************************************************)
(* Claims about the rules of calculate_adjustments                         *)
(***************************************************************************)
\* calculate_adjustments returned a list computed from a week of logs.
AdjComputed ==
    /\ AdjCalled
    /\ ret.kind = "list"
    /\ Len(logs) >= WeeklyDays

\* The record of the body-composition rule at the given body fat.
BodyCompositionRecord(body_fat) ==
    Adjustment(200, IF body_fat > 20 THEN 25 ELSE 35, "Losing lean mass", "high")

\* The positions of the returned list that hold a High record with +200
\* calories and a protein step of 25 or 35.
BodyCompositionAt ==
    {i \in 1..Len(ret.value) :
        /\ ret.value[i].severity = "high"
        /\ ret.value[i].calories = 200
        /\ ret.value[i].protein \in {25, 35}}

\* C11: when lean mass fell over the week and the mode is not aggressive cut,
\* the returned list holds the High record with +200 calories and protein 25
\* if body fat > 20 else 35, whatever the rate rule did; in aggressive cut,
\* or when lean mass did not fall, the list holds no such record.
C11_BodyCompositionRule ==
    AdjComputed =>
        IF LeanFalling /\ call.mode # "aggressive_cut"
        THEN /\ Cardinality(BodyCompositionAt) = 1
             /\ \A i \in BodyCompositionAt :
                   ret.value[i] = BodyCompositionRecord(WeekEnd.body_fat)
        ELSE BodyCompositionAt = {}

\* Lean mass fell at a body fat of exactly 20 in a bulk mode whose rate rule
\* fired as well: the record carries protein 35 and follows the rate record.
C11_Witness ==
    /\ AdjComputed
    /\ call.mode = "standard_bulk"
    /\ LeanFalling
    /\ WeekEnd.body_fat = 20
    /\ Len(ret.value) >= 2
    /\ ret.value[1].reason = "Weight gain too slow"
    /\ ret.value[2] = BodyCompositionRecord(20)
    /\ ret.value[2].protein = 35

\* The weekly weight change of the last seven logs, in hundredths of a
\* kilogram per week, as the rational <<num, den>>.
WeekRate ==
    <<7 * (WeekEnd.weight - WeekStart.weight), WeekEnd.date - WeekStart.date>>

\* The adaptive adjustment size of the call.
SizeOfCall ==
    _calculate_adaptive_adjustment(WeekRate, call.mode, WeekEnd.body_fat)

\* weekly change > factor/2 * target and < factor/2 * target, the target in
\* grams per week.
RateAbove(target, halves) == 20 * WeekRate[1] > halves * target * WeekRate[2]
RateBelow(target, halves) == 20 * WeekRate[1] < halves * target * WeekRate[2]

\* The records of the returned list that the rate-of-progress rule wrote.
RateReasons ==
    {"Weight loss too slow", "Weight loss too fast",
     "Weight gain too slow", "Weight gain too fast"}

IsRateRecord(a) == a.reason \in RateReasons

RateRecords == SelectSeq(ret.value, IsRateRecord)

CutTarget == IF call.mode = "aggressive_cut" THEN -800 ELSE -500

\* C12: in the two cut modes (targets -0.8 and -0.5 kg/week) a weekly change
\* above half the target gives one Medium record with calories -size and
\* protein 0, a weekly change below one and a half times the target gives one
\* High record with calories +size and protein round(size / 40), never both,
\* and from 1.5 x target to 0.5 x target inclusive the rule gives no record.
C12_CutRateRule ==
    (AdjComputed /\ call.mode \in CutModes) =>
        /\ ~(RateAbove(CutTarget, 1) /\ RateBelow(CutTarget, 3))
        /\ RateRecords =
              IF RateAbove(CutTarget, 1)
              THEN <<Adjustment(-SizeOfCall, 0, "Weight loss too slow", "medium")>>
              ELSE IF RateBelow(CutTarget, 3)
              THEN <<Adjustment(SizeOfCall, PyRound(SizeOfCall, 40),
                                "Weight loss too fast", "high")>>
              ELSE <<>>

\* Aggressive cut losing faster than 1.2 kg/week: the High record, whose
\* protein round(300 / 40) is 8.
C12_Witness ==
    /\ AdjComputed
    /\ call.mode = "aggressive_cut"
    /\ RateBelow(CutTarget, 3)
    /\ SizeOfCall = 300
    /\ RateRecords = <<Adjustment(300, 8, "Weight loss too fast", "high")>>

BulkTarget == IF call.mode = "lean_bulk" THEN 250 ELSE 500

\* C13: in the two bulk modes (targets +0.25 and +0.5 kg/week) a weekly change
\* below half the target gives one Medium record with calories +size, a
\* weekly change above one and a half times the target gives one High record
\* with calories -size, never both, and in between the rule gives no record.
C13_BulkRateRule ==
    (AdjComputed /\ call.mode \in BulkModes) =>
        /\ ~(RateBelow(BulkTarget, 1) /\ RateAbove(BulkTarget, 3))
        /\ RateRecords =
              IF RateBelow(BulkTarget, 1)
              THEN <<Adjustment(SizeOfCall, 0, "Weight gain too slow", "medium")>>
              ELSE IF RateAbove(BulkTarget, 3)
              THEN <<Adjustment(-SizeOfCall, 0, "Weight gain too fast", "high")>>
              ELSE <<>>

\* Lean bulk gaining faster than 0.375 kg/week: the High record.
C13_Witness ==
    /\ AdjComputed
    /\ call.mode = "lean_bulk"
    /\ RateAbove(BulkTarget, 3)
    /\ RateRecords = <<Adjustment(-SizeOfCall, 0, "Weight gain too fast", "high")>>

\* The records of the returned list that the plateau rule wrote.
PlateauReasons ==
    {"Progress has plateaued with good adherence",
     "Apparent plateau but adherence is low"}

IsPlateauRecord(a) == a.reason \in PlateauReasons

PlateauRecords == SelectSeq(ret.value, IsPlateauRecord)

\* More than 0.9 of the last 14 logs carry calories (a plateau needs 21 logs,
\* so the 14 are there).
AdherenceGood ==
    LET logged == {i \in Len(logs) - AdherenceDays + 1..Len(logs) :
                      logs[i].calories > 0}
    IN  10 * Cardinality(logged) > 9 * AdherenceDays

AllCutModes == {"aggressive_cut", "standard_cut", "conservative_cut"}

\* C14 as stated: whenever a plateau is detected the list holds exactly one
\* plateau record: under good adherence Medium with protein 0 and -300
\* calories in every cut mode, +300 in every bulk mode; under low adherence
\* Low with 0 calories and 0 protein; and every Low record is 0 / 0.
C14_PlateauRule ==
    AdjComputed =>
        /\ PlateauSeen =>
              /\ Len(PlateauRecords) = 1
              /\ (AdherenceGood /\ call.mode \in AllCutModes) =>
                    PlateauRecords[1] = Adjustment(-300, 0,
                        "Progress has plateaued with good adherence", "medium")
              /\ (AdherenceGood /\ call.mode \in BulkModes) =>
                    PlateauRecords[1] = Adjustment(300, 0,
                        "Progress has plateaued with good adherence", "medium")
              /\ ~AdherenceGood =>
                    PlateauRecords[1] = Adjustment(0, 0,
                        "Apparent plateau but adherence is low", "low")
        /\ \A i \in 1..Len(ret.value) :
              ret.value[i].severity = "low" =>
                  ret.value[i].calories = 0 /\ ret.value[i].protein = 0

\* A conservative cut on a plateau with good adherence: calculate_adjustments
\* returns, and no plateau record is in the list.
C14_Witness ==
    /\ AdjComputed
    /\ call.mode = "conservative_cut"
    /\ PlateauSeen
    /\ AdherenceGood
    /\ PlateauRecords = <<>>

\* The target rate of the four modes that have one, in grams per week.
OwnTarget ==
    IF call.mode = "aggressive_cut" THEN -800
    ELSE IF call.mode = "standard_cut" THEN -500
    ELSE IF call.mode = "lean_bulk" THEN 250
    ELSE 500

\* |weekly change - target| in grams per week, times the days spanned.
DeviationTimesSpan == Abs(10 * WeekRate[1] - OwnTarget * WeekRate[2])

\* The two factors in tenths.
BodyFatFactor ==
    IF WeekEnd.body_fat < 12 THEN 7
    ELSE IF WeekEnd.body_fat > 25 THEN 13
    ELSE 10

DeviationFactor ==
    IF DeviationTimesSpan > 500 * WeekRate[2] THEN 15
    ELSE IF DeviationTimesSpan < 200 * WeekRate[2] THEN 7
    ELSE 10

\* C15: in the four modes with a target rate the adaptive size is
\* round(200 * f_bf * f_dev), f_bf = 0.7 below 12 % body fat, 1.3 above 25 %,
\* else 1, f_dev = 1.5 when the weekly change is more than 0.5 kg/week off
\* target, 0.7 when less than 0.2 off, else 1; in every mode it is an integer
\* from 98 to 390.
C15_AdaptiveSize ==
    AdjComputed =>
        /\ call.mode \in CutModes \cup BulkModes =>
              /\ SizeOfCall = PyRound(200 * BodyFatFactor * DeviationFactor, 100)
              /\ SizeOfCall \in {98, 140, 182, 200, 210, 260, 300, 390}
              /\ \A i \in 1..Len(RateRecords) :
                    Abs(RateRecords[i].calories) = SizeOfCall
        /\ SizeOfCall \in 98..390

\* Body fat exactly 12 and a week exactly 0.2 kg/week below the lean-bulk
\* target: both factors are 1 and the "too slow" record carries 200.
C15_Witness ==
    /\ AdjComputed
    /\ call.mode = "lean_bulk"
    /\ WeekEnd.body_fat = 12
    /\ DeviationTimesSpan = 200 * WeekRate[2]
    /\ SizeOfCall = 200
    /\ RateRecords # <<>>
    /\ RateRecords[1].calories = 200

(***************************************************************************)
(* DataManager.merge_logs (data_manager.py)                                *)
(***************************************************************************)
\* The keys of {log.date: log for log in s}, in insertion order.
RECURSIVE DictKeys(_)
DictKeys(s) ==
    IF s = <<>> THEN <<>>
    ELSE LET front == DictKeys(SubSeq(s, 1, Len(s) - 1))
             d == s[Len(s)].date
         IN  IF \E i \in 1..Len(front) : front[i] = d THEN front
             ELSE Append(front, d)

\* The value a dict comprehension over s keeps for key d: the last one.
DictValue(s, d) ==
    s[CHOOSE i \in 1..Len(s) :
          /\ s[i].date = d
          /\ \A j \in i + 1..Len(s) : s[j].date # d]

HasDate(s, d) == \E i \in 1..Len(s) : s[i].date = d

\* _update_log: the return statement sits inside the loop over the fields, so
\* DailyLog(**updated_data) is called with the first field alone and raises
\* TypeError.
_update_log(old_log, new_log) == Raise

\* A plausible slip: on a date already held the existing log is kept.
merge_logs_keeping(existing, new_logs, strategy) ==
    LET old_keys == DictKeys(existing)
        new_keys == SelectSeq(DictKeys(new_logs),
                              LAMBDA d : ~HasDate(existing, d))
        keys == old_keys \o new_keys
        merged(d) ==
            IF HasDate(existing, d) THEN DictValue(existing, d)
            ELSE DictValue(new_logs, d)
    IN  [kind |-> "list",
         value |-> SortByDate([i \in 1..Len(keys) |-> merged(keys[i])])]

\* merge_logs(new_logs, strategy) on a data manager whose tracker holds
\* existing: the merged dictionary's values, sorted by date.
merge_logs(existing, new_logs, strategy) ==
    LET old_keys == DictKeys(existing)
        new_keys == SelectSeq(DictKeys(new_logs),
                              LAMBDA d : ~HasDate(existing, d))
        keys == old_keys \o new_keys
        merged(d) ==
            IF HasDate(new_logs, d) /\ (strategy = "replace" \/ ~HasDate(existing, d))
            THEN DictValue(new_logs, d)
            ELSE DictValue(existing, d)
        update_raises ==
            /\ strategy = "update"
            /\ \E i \in 1..Len(new_logs) :
                  /\ HasDate(existing, new_logs[i].date)
                  /\ _update_log(DictValue(existing, new_logs[i].date),
                                 new_logs[i]).kind = "raise"
    IN  IF update_raises THEN Raise
        ELSE [kind |-> "list",
              value |-> SortByDate([i \in 1..Len(keys) |-> merged(keys[i])])]

(***************************************************************************)
(* MacroTracker (macro_tracker.py): objects and references                 *)
(***************************************************************************)
\* heap.lists[i] is the content of list object i; heap.trackers[t] is the
\* list object that ProgressTracker object t holds in its field logs.
TrackerLogs(h, t) == h.lists[h.trackers[t]]

\* A plausible slip: the tracker keeps the caller's list instead of a copy.
ProgressTracker_init_aliased(h, list_id) ==
    [h EXCEPT !.trackers = Append(@, list_id)]

\* ProgressTracker.__init__: self.logs = sorted(logs, ...), a new list object.
ProgressTracker_init(h, list_id) ==
    [lists |-> Append(h.lists, ProgressTracker(h.lists[list_id])),
     trackers |-> Append(h.trackers, Len(h.lists) + 1)]

\* A plausible slip: add_log leaves the sorting to the tracker.
logs_sort_skipped(lg) == lg

\* self.logs.sort(key=lambda x: x.date)
logs_sort(lg) == SortByDate(lg)

Components == <<"calculator", "adjuster", "data_manager">>

\* A plausible slip: _update_components forgets the adjuster.
UpdateComponent_forgetful(m, component) ==
    IF component = "adjuster" THEN m ELSE [m EXCEPT ![component] = m.tracker]

\* One assignment of _update_components after the first:
\* self.<component> = <Class>(self.tracker)
UpdateComponent(m, component) == [m EXCEPT ![component] = m.tracker]

IsSorted(s) == \A i \in 1..Len(s) - 1 : s[i].date <= s[i + 1].date

(***************************************************************************)
(* Specification SpecTrk: one thread calls add_log and load_data on a      *)
(* MacroTracker, statement by statement, while a reading thread takes the  *)
(* tracker of one of its components and reads that tracker's logs.         *)
(***************************************************************************)
\* Calls of add_log and load_data made on the MacroTracker.
MaxWrites == 2

TrkDates == {1, 2, 3}

\* Logs passed to add_log, and logs found in imported files.
AddedLogs ==
    {DailyLog(d, 8000, 20, 2000, 150, NoneVal, NoneVal) : d \in TrkDates}
ImportedLogs ==
    {DailyLog(d, 8100, 20, 1800, 140, NoneVal, NoneVal) : d \in TrkDates}

\* Logs of an imported file that carry no calories.
PartialLogs ==
    {DailyLog(d, 8100, 20, 0, 140, NoneVal, NoneVal) : d \in TrkDates}

\* What import_data returns: up to two logs, in any date order; the first
\* date can come with either of two different logs.
ImportBatches ==
    UNION {[1..n -> ImportedLogs \cup {x \in PartialLogs : x.date = 1}] :
               n \in {0, 1, 2}}

\* MacroTracker.__init__
InitTrk ==
    /\ heap = ProgressTracker_init([lists |-> << <<>> >>, trackers |-> <<>>], 1)
    /\ macro = [logs |-> 1, tracker |-> 1, calculator |-> 1, adjuster |-> 1,
                data_manager |-> 1]
    /\ pc = Idle
    /\ reader = NoReader
    /\ logs = <<>>
    /\ adjustments = <<>>
    /\ call = NoCall
    /\ ret = NoRet

WritesLeft == Len(heap.trackers) <= MaxWrites

\* add_log, line 27: self.logs.append(log)
AddLogAppend ==
    /\ pc = Idle
    /\ WritesLeft
    /\ \E log \in AddedLogs :
          /\ heap' = [heap EXCEPT !.lists[macro.logs] = Append(@, log)]
          /\ pc' = [op |-> "add_log", at |-> "sort",
                    before |-> heap.lists[macro.logs], arg |-> <<log>>]
    /\ UNCHANGED <<logs, adjustments, call, ret, macro, reader>>

\* add_log, line 28: self.logs.sort(key=lambda x: x.date)
AddLogSort ==
    /\ pc.op = "add_log"
    /\ pc.at = "sort"
    /\ heap' = [heap EXCEPT !.lists[macro.logs] = logs_sort(@)]
    /\ pc' = [pc EXCEPT !.at = "tracker"]
    /\ UNCHANGED <<logs, adjustments, call, ret, macro, reader>>

\* load_data, lines 21-22: self.logs = self.data_manager.merge_logs(imported)
LoadDataMerge ==
    /\ pc = Idle
    /\ WritesLeft
    /\ \E imported \in ImportBatches :
          LET merged == merge_logs(TrackerLogs(heap, macro.data_manager),
                                   imported, "replace")
          IN  /\ merged.kind = "list"
              /\ heap' = [heap EXCEPT !.lists = Append(@, merged.value)]
              /\ macro' = [macro EXCEPT !.logs = Len(heap.lists) + 1]
              /\ pc' = [op |-> "load_data", at |-> "tracker",
                        before |-> heap.lists[macro.logs], arg |-> imported]
    /\ UNCHANGED <<logs, adjustments, call, ret, reader>>

\* _update_components, line 133: self.tracker = ProgressTracker(self.logs)
UpdateTracker ==
    /\ pc.op # "idle"
    /\ pc.at = "tracker"
    /\ heap' = ProgressTracker_init(heap, macro.logs)
    /\ macro' = [macro EXCEPT !.tracker = Len(heap'.trackers)]
    /\ pc' = [pc EXCEPT !.at = Components[1]]
    /\ UNCHANGED <<logs, adjustments, call, ret, reader>>

\* _update_components, lines 134-136, one assignment at a time
UpdateComponents ==
    /\ pc.op # "idle"
    /\ \E k \in 1..Len(Components) :
          /\ pc.at = Components[k]
          /\ macro' = UpdateComponent(macro, Components[k])
          /\ pc' = IF k < Len(Components)
                   THEN [pc EXCEPT !.at = Components[k + 1]]
                   ELSE Idle
    /\ UNCHANGED <<logs, adjustments, call, ret, heap, reader>>

\* The reading thread picks up the tracker of one of the components; seen,
\* during and logs_then record the tracker's logs, the writer's position and
\* MacroTracker.logs at that moment.
ReaderTake ==
    /\ reader = NoReader
    /\ \E c \in {"tracker", "calculator", "adjuster", "data_manager"} :
          reader' = [tracker |-> macro[c], seen |-> TrackerLogs(heap, macro[c]),
                     during |-> pc, logs_then |-> heap.lists[macro.logs]]
    /\ UNCHANGED <<logs, adjustments, call, ret, heap, macro, pc>>

\* logs = self.tracker.logs, as every query of a component begins
ReaderQuery ==
    /\ reader # NoReader
    /\ call = NoCall
    /\ call' = [name |-> "tracker.logs"]
    /\ ret' = [kind |-> "logs", value |-> TrackerLogs(heap, reader.tracker)]
    /\ UNCHANGED <<logs, adjustments, heap, macro, pc, reader>>

\* The reading thread is done with its tracker.
ReaderDone ==
    /\ reader # NoReader
    /\ call # NoCall
    /\ reader' = NoReader
    /\ call' = NoCall
    /\ ret' = NoRet
    /\ UNCHANGED <<logs, adjustments, heap, macro, pc>>

NextTrk ==
    \/ AddLogAppend
    \/ AddLogSort
    \/ LoadDataMerge
    \/ UpdateTracker
    \/ UpdateComponents
    \/ ReaderTake
    \/ ReaderQuery
    \/ ReaderDone

SpecTrk == InitTrk /\ [][NextTrk]_vars

\* The content of MacroTracker.logs.
MacroLogs == heap.lists[macro.logs]

\* C16: after any sequence of add_log and load_data calls, with logs supplied
\* in any date order, MacroTracker.logs and the logs of every ProgressTracker
\* built are sorted ascending by date (MacroTracker.logs from the moment
\* add_log has sorted it).
C16_LogsSorted ==
    /\ (pc = Idle \/ pc.at # "sort") => IsSorted(MacroLogs)
    /\ \A t \in 1..Len(heap.trackers) : IsSorted(TrackerLogs(heap, t))

\* add_log was given a log dated before the last one held and has sorted
\* the list; the list holds logs of several dates.
C16_Witness ==
    /\ pc.op = "add_log"
    /\ pc.at = "tracker"
    /\ pc.before # <<>>
    /\ pc.arg[1].date < pc.before[Len(pc.before)].date
    /\ Len(MacroLogs) >= 3
    /\ IsSorted(MacroLogs)

\* C17: after every completed add_log or load_data the MacroTracker, its
\* calculator, adjuster and data manager all refer to one ProgressTracker,
\* and that tracker's logs are exactly the current MacroTracker.logs.
C17_ComponentsFresh ==
    pc = Idle =>
        /\ macro.calculator = macro.tracker
        /\ macro.adjuster = macro.tracker
        /\ macro.data_manager = macro.tracker
        /\ TrackerLogs(heap, macro.tracker) = MacroLogs
        /\ macro.tracker = Len(heap.trackers)

\* Two calls have completed, the second an add_log whose log is in the logs
\* of the tracker every component refers to.
C17_Witness ==
    /\ pc = Idle
    /\ macro.tracker >= 3
    /\ macro.adjuster = macro.tracker
    /\ \E i \in 1..Len(MacroLogs) : MacroLogs[i] \in AddedLogs
    /\ \E i \in 1..Len(MacroLogs) : MacroLogs[i] \in ImportedLogs
    /\ TrackerLogs(heap, macro.adjuster) = MacroLogs

\* The complete log set after the call p that was in progress.
PostSet(p) ==
    IF p.op = "add_log" THEN SortByDate(Append(p.before, p.arg[1]))
    ELSE merge_logs(p.before, p.arg, "replace").value

\* C19: a constructed ProgressTracker is an immutable snapshot.  The logs of
\* the tracker a reader holds are a list object of their own, stay what they
\* were when the reader took the tracker whatever add_log / load_data steps
\* run meanwhile, are sorted, and are either the complete log set before the
\* call in progress at that moment or the complete set after it.
C19_SnapshotIsolation ==
    /\ \A t \in 1..Len(heap.trackers) : heap.trackers[t] # macro.logs
    /\ reader # NoReader =>
          /\ TrackerLogs(heap, reader.tracker) = reader.seen
          /\ IsSorted(reader.seen)
          /\ IF reader.during = Idle
             THEN reader.seen = reader.logs_then
             ELSE reader.seen \in {reader.during.before, PostSet(reader.during)}
          /\ call # NoCall => ret.value = reader.seen

\* A reader took the adjuster's tracker while add_log had appended an
\* out-of-order log but not yet sorted; the call has since completed, and the
\* reader's query still returns the complete set from before the append.
C19_Witness ==
    /\ reader # NoReader
    /\ reader.during # Idle
    /\ reader.during.op = "add_log"
    /\ reader.during.at = "sort"
    /\ ~IsSorted(reader.logs_then)
    /\ pc = Idle
    /\ call # NoCall
    /\ ret.value = reader.during.before
    /\ ret.value # MacroLogs

(***************************************************************************)
(* Specification SpecQry: the estimator and adjuster queries issued again  *)
(* and again, in any order, on one tracker.                                *)
(***************************************************************************)
InitQry ==
    /\ \E n \in {0, WeeklyDays, PlateauDays}, dWeek \in {-10, 0},
          bf \in {<<0, 0>>, <<25, 25>>}, pattern \in {"daily", "same"} :
          logs = AdjLogs(n, 0, dWeek, bf, pattern, 0)
    /\ adjustments = <<>>
    /\ call = NoCall
    /\ ret = NoRet
    /\ NoMacroTracker

\* The record of a query: again says that the query before it was the same
\* one with the same parameters.
Request(name, params) ==
    [name |-> name, params |-> params,
     again |-> call.name = name /\ call.params = params]

\* A plausible slip in calculate_tdee: self.logs = self.logs[-days:] for
\* recent_logs = sorted(self.logs[-days:], ...).
TdeeQuery_truncating ==
    /\ \E days \in {WeeklyDays, AdherenceDays}, singular \in SingularOutcomes :
          /\ call' = Request("calculate_tdee", <<days, singular>>)
          /\ ret' = calculate_tdee(logs, days, singular)
          /\ logs' = LastN(logs, days)
    /\ UNCHANGED <<adjustments, heap, macro, pc, reader>>

\* singular, what the numpy build does with a singular fit, is fixed for a
\* process and so counts among the parameters.
TdeeQuery ==
    /\ \E days \in {WeeklyDays, AdherenceDays}, singular \in SingularOutcomes :
          /\ call' = Request("calculate_tdee", <<days, singular>>)
          /\ ret' = calculate_tdee(logs, days, singular)
    /\ UNCHANGED <<logs, adjustments, heap, macro, pc, reader>>

TrendsQuery ==
    /\ \E days \in {WeeklyDays, PlateauDays}, singular \in SingularOutcomes :
          /\ call' = Request("calculate_trends", <<days, singular>>)
          /\ ret' = calculate_trends(logs, days, singular)
    /\ UNCHANGED <<logs, adjustments, heap, macro, pc, reader>>

PlateauQuery ==
    /\ \E weeks \in QueryWeeks, singular \in SingularOutcomes :
          /\ call' = Request("detect_plateau", <<weeks, singular>>)
          /\ ret' = ProgressTracker_detect_plateau(logs, PlateauRate, weeks, singular)
    /\ UNCHANGED <<logs, adjustments, heap, macro, pc, reader>>

BodyCompositionQuery ==
    /\ \E days \in {WeeklyDays, PlateauDays} :
          /\ call' = Request("analyze_body_composition", <<days>>)
          /\ ret' = analyze_body_composition(logs, days)
    /\ UNCHANGED <<logs, adjustments, heap, macro, pc, reader>>

AdherenceQuery ==
    /\ \E days \in {WeeklyDays, PlateauDays} :
          /\ call' = Request("get_adherence_stats", <<days>>)
          /\ ret' = get_adherence_stats(logs, days)
    /\ UNCHANGED <<logs, adjustments, heap, macro, pc, reader>>

AdjustmentsQuery ==
    /\ \E stats_body_fat \in StatsBodyFats, mode \in DietModes :
          /\ call' = Request("calculate_adjustments", <<stats_body_fat, mode>>)
          /\ ret' = calculate_adjustments(logs, stats_body_fat, mode)
    /\ UNCHANGED <<logs, adjustments, heap, macro, pc, reader>>

NextQry ==
    \/ TdeeQuery
    \/ TrendsQuery
    \/ PlateauQuery
    \/ BodyCompositionQuery
    \/ AdherenceQuery
    \/ AdjustmentsQuery

SpecQry == InitQry /\ [][NextQry]_vars

NewWeights == {0, 7000, 8000, 8050}
NewBodyFats == {0, 15, 20}
NewLeanMasses == {NoneVal, 0, 500000}
NewFatMasses == {NoneVal, 0, 100000}

InitLog ==
    /\ logs = <<>>
    /\ adjustments = <<>>
    /\ call = NoCall
    /\ ret = NoRet
    /\ NoMacroTracker

\* DailyLog(...): __init__ and __post_init__
CreateLog ==
    /\ call = NoCall
    /\ \E weight \in NewWeights, body_fat \in NewBodyFats,
          lean_mass \in NewLeanMasses, fat_mass \in NewFatMasses :
          /\ call' = [name |-> "DailyLog", weight |-> weight,
                      body_fat |-> body_fat, lean_mass |-> lean_mass,
                      fat_mass |-> fat_mass]
          /\ logs' = <<DailyLog(1, weight, body_fat, 2000, 150,
                                lean_mass, fat_mass)>>
    /\ UNCHANGED <<adjustments, ret, heap, macro, pc, reader>>

NextLog == CreateLog

SpecLog == InitLog /\ [][NextLog]_vars

LogCreated == call.name = "DailyLog"

\* Masses are in tenths of a gram: weight (hundredths of a kilogram) times
\* 100 is the weight, times body_fat (percent) the fat mass.
MassesDerived ==
    /\ logs[1].fat_mass = logs[1].weight * logs[1].body_fat
    /\ logs[1].lean_mass = logs[1].weight * 100 - logs[1].fat_mass
    /\ logs[1].lean_mass + logs[1].fat_mass = logs[1].weight * 100

MassesKept ==
    /\ logs[1].fat_mass = call.fat_mass
    /\ logs[1].lean_mass = call.lean_mass

\* C20 as stated: a DailyLog created with body fat present has
\* fat_mass = weight * body_fat / 100 and lean_mass = weight - fat_mass,
\* whatever masses were passed; one created with body_fat = 0 keeps the
\* masses it was given.
C20_BodyFatPresent ==
    LogCreated => IF call.body_fat # 0 THEN MassesDerived ELSE MassesKept

\* C20, amended: a DailyLog created with weight and body fat both present
\* (non-zero) has fat_mass = weight * body_fat / 100 and
\* lean_mass = weight - fat_mass, whatever masses were passed; one created
\* with weight 0 or body_fat 0 keeps the masses it was given.
C20_WeightAndBodyFatPresent ==
    LogCreated =>
        IF call.weight # 0 /\ call.body_fat # 0 THEN MassesDerived
        ELSE MassesKept

\* Weight and body fat present and other masses passed: the log carries the
\* derived ones.
C20_Witness ==
    /\ LogCreated
    /\ call.weight = 8050
    /\ call.body_fat = 15
    /\ call.lean_mass = 500000
    /\ call.fat_mass = 100000
    /\ logs[1].fat_mass = 120750
    /\ logs[1].lean_mass = 684250

(***************************************************************************)
(* Specification SpecComp: analyze_body_composition on short lists        *)
(***************************************************************************)
\* Up to MaxCompLogs daily logs; a log carries 80.0 or 81.0 kg and either
\* 20 % body fat (its masses are derived) or none (its masses stay None).
MaxCompLogs == 3
CompWeights == {8000, 8100}
CompBodyFats == {0, 20}
CompDays == 0..MaxCompLogs

CompLogs(n, w, bf) ==
    ProgressTracker(
        [i \in 1..n |->
            DailyLog(i - 1, w[i], bf[i], 2000, 150, NoneVal, NoneVal)])

InitComp ==
    /\ \E n \in 0..MaxCompLogs :
          \E w \in [1..n -> CompWeights], bf \in [1..n -> CompBodyFats] :
             logs = CompLogs(n, w, bf)
    /\ adjustments = <<>>
    /\ call = NoCall
    /\ ret = NoRet
    /\ NoMacroTracker

AnalyzeWindow ==
    /\ call = NoCall
    /\ \E days \in CompDays :
          /\ call' = [name |-> "analyze_window", days |-> days]
          /\ ret' = analyze_body_composition(logs, days)
    /\ UNCHANGED <<logs, adjustments, heap, macro, pc, reader>>

NextComp == AnalyzeWindow

SpecComp == InitComp /\ [][NextComp]_vars

WindowCalled == call.name = "analyze_window" /\ Len(logs) >= call.days

\* The first and the last log of the window of a call with days >= 1.
WindowFirst == logs[Len(logs) - call.days + 1]
WindowLast == logs[Len(logs)]

LeanOnBoth ==
    /\ WindowFirst.lean_mass # NoneVal
    /\ WindowLast.lean_mass # NoneVal

\* What the result of a call with days >= 1 has to be.
CompositionAsSpecified ==
    /\ ret.kind = "dict"
    /\ ret.has_lean <=> LeanOnBoth
    /\ ret.has_lean =>
          IF WindowLast.weight = WindowFirst.weight
          THEN ret.lean_mass_ratio[1] = 0 /\ ret.lean_mass_ratio[2] # 0
          ELSE /\ ret.lean_mass_ratio[2] # 0
               /\ ret.lean_mass_ratio[1] * 100
                      * (WindowLast.weight - WindowFirst.weight)
                  = (WindowLast.lean_mass - WindowFirst.lean_mass)
                      * ret.lean_mass_ratio[2]

\* C21 as stated: analyze_body_composition(days) with at least days logs
\* never divides by zero; lean_mass_ratio is 0 when the first and the last
\* log of the window have equal weight and both have lean mass, and
\* lean_mass_change / total_weight_change otherwise; the three lean keys
\* are present exactly when lean mass is on both of these logs.
C21_NoZeroDivision ==
    WindowCalled =>
        /\ ret # ZeroDivisionError
        /\ ret.kind = "dict" => (call.days >= 1 /\ CompositionAsSpecified)

\* C21, amended: the same for days >= 1; with days = 0 the call divides by
\* zero (days / 7) on every non-empty list.
C21_NoZeroDivisionInWindow ==
    WindowCalled =>
        /\ call.days >= 1 => CompositionAsSpecified
        /\ (call.days = 0 /\ logs # <<>>) => ret = ZeroDivisionError

\* Three logs, equal weight at both ends of the window of three, lean mass
\* on both: the ratio is 0.
C21_Witness ==
    /\ WindowCalled
    /\ call.days = MaxCompLogs
    /\ Len(logs) = MaxCompLogs
    /\ LeanOnBoth
    /\ WindowFirst.weight = WindowLast.weight
    /\ ret.kind = "dict"
    /\ ret.has_lean
    /\ ret.lean_mass_ratio = <<0, 1>>

\* What ProgressTracker.detect_plateau (threshold 0.2, weeks 3) reports on
\* the logs of the call.  The fit of a list on which calculate_adjustments
\* returned is never singular: its last seven logs span at least a day.
Classifier == ProgressTracker_detect_plateau(logs, PlateauRate, 3, "raise")

\* The modes in which the plateau rule leaves a record whenever it fires.
RecordingModes == CutModes \cup BulkModes

GoodAdherenceRecord ==
    /\ Len(PlateauRecords) = 1
    /\ PlateauRecords[1].reason = "Progress has plateaued with good adherence"

\* C22: the plateau rule inside calculate_adjustments fires exactly when
\* ProgressTracker.detect_plateau (threshold 0.2, weeks 3) reports a plateau
\* on the same logs, and treats it as one of good adherence exactly when
\* that report is "True plateau detected (good adherence)".  The rule is
\* observed in the four modes in which its firing always leaves a record.
C22_PlateauAgreesWithClassifier ==
    (AdjComputed /\ call.mode \in RecordingModes) =>
        /\ Classifier.kind = "tuple"
        /\ PlateauRecords # <<>> <=> Classifier.plateau
        /\ PlateauRecords # <<>> =>
              (GoodAdherenceRecord <=> Classifier.message = MsgTruePlateau)

\* A standard cut on 21 daily logs, the last of them 0.7 kg above the others:
\* the Classifier's regression reports a plateau and the rule stays silent.
C22_Witness ==
    /\ AdjComputed
    /\ call.mode = "standard_cut"
    /\ Len(logs) = PlateauDays
    /\ Classifier.kind = "tuple"
    /\ Classifier.plateau
    /\ PlateauRecords = <<>>

\* The last of 21 flat daily logs carries no calories: the rule counts 13 of
\* 14 days (good adherence), the Classifier 6 of 7 (low adherence).
C22_AdherenceWitness ==
    /\ AdjComputed
    /\ call.mode = "standard_cut"
    /\ Len(logs) = PlateauDays
    /\ GoodAdherenceRecord
    /\ Classifier.kind = "tuple"
    /\ Classifier.plateau
    /\ Classifier.message = MsgLowAdherence

\* C23: with fewer than 7 logs in the tracker (none included)
\* calculate_adjustments returns the empty list, without raising, in every
\* diet mode: no rule is evaluated.
C23_ShortHistoryEmpty ==
    (AdjCalled /\ Len(logs) < WeeklyDays) =>
        ret = [kind |-> "list", value |-> <<>>]

\* Six logs in a standard cut, the last 0.75 kg above the first (a change
\* the rate rule would act on) and without calories: the list is empty.
C23_Witness ==
    /\ AdjCalled
    /\ call.mode = "standard_cut"
    /\ Len(logs) = WeeklyDays - 1
    /\ logs[Len(logs)].weight - logs[1].weight = 75
    /\ logs[Len(logs)].date > logs[1].date
    /\ logs[Len(logs)].calories = 0
    /\ ret = [kind |-> "list", value |-> <<>>]

(***************************************************************************)
(* Specification SpecMrg: DataManager.merge_logs called on a tracker       *)
(***************************************************************************)
\* new_logs: up to two logs, in any date order.
MergeBatches ==
    UNION {[1..n -> ImportedLogs \cup PartialLogs] : n \in {0, 1, 2}}

MergeStrategies == {"replace", "update"}

\* The tracker of the data manager holds up to two logs.
InitMrg ==
    /\ \E n \in {0, 1, 2} :
          \E existing \in [1..n -> AddedLogs] : logs = ProgressTracker(existing)
    /\ adjustments = <<>>
    /\ call = NoCall
    /\ ret = NoRet
    /\ NoMacroTracker

MergeLogs ==
    /\ call = NoCall
    /\ \E new_logs \in MergeBatches, strategy \in MergeStrategies :
          /\ call' = [name |-> "merge_logs", new_logs |-> new_logs,
                      strategy |-> strategy]
          /\ ret' = merge_logs(logs, new_logs, strategy)
    /\ UNCHANGED <<logs, adjustments, heap, macro, pc, reader>>

NextMrg == MergeLogs

SpecMrg == InitMrg /\ [][NextMrg]_vars

MergeCalled == call.name = "merge_logs"

\* Dates held by the tracker and present in new_logs.
DatesInBoth == {d \in TrkDates : HasDate(logs, d) /\ HasDate(call.new_logs, d)}

\* The field a log updated from new_log has to carry.
UpdatedField(old_log, new_log, field) ==
    IF new_log[field] # NoneVal /\ new_log[field] # 0 THEN new_log[field]
    ELSE old_log[field]

\* C24: merge_logs with strategy 'update' completes without raising, and for
\* a date present in the existing and in the new logs the merged log takes
\* each field from the new log when it is neither None nor 0, and from the
\* existing log otherwise.
C24_UpdateMergesFields ==
    (MergeCalled /\ call.strategy = "update") =>
        /\ ret.kind = "list"
        /\ \A d \in DatesInBoth :
              /\ HasDate(ret.value, d)
              /\ \A field \in DOMAIN DictValue(logs, d) :
                    DictValue(ret.value, d)[field] =
                        UpdatedField(DictValue(logs, d),
                                     DictValue(call.new_logs, d), field)

\* An 'update' merge of a log whose date the tracker already holds: the call
\* raises.
C24_Witness ==
    /\ MergeCalled
    /\ call.strategy = "update"
    /\ Len(logs) = 1
    /\ Len(call.new_logs) = 1
    /\ DatesInBoth # {}
    /\ ret = Raise

(***************************************************************************)
(* Claims about what load_data and add_log keep                            *)
(***************************************************************************)
DatesOf(s) == {s[i].date : i \in 1..Len(s)}

\* How often the log x occurs in s.
Occurrences(s, x) == Cardinality({i \in 1..Len(s) : s[i] = x})

OnePerDate(s) == \A i, j \in 1..Len(s) : s[i].date = s[j].date => i = j

LoadDone == pc # Idle /\ pc.op = "load_data"
AddDone == pc # Idle /\ pc.op = "add_log"

\* C25: after load_data MacroTracker.logs holds at most one log per date,
\* every date held before the load or imported, and for every imported date
\* the log imported last for it; add_log removes and replaces nothing, even
\* when the date of its log is already held.
C25_LoadReplacesAddKeeps ==
    /\ LoadDone =>
          /\ OnePerDate(MacroLogs)
          /\ DatesOf(MacroLogs) = DatesOf(pc.before) \cup DatesOf(pc.arg)
          /\ \A d \in DatesOf(pc.arg) :
                \E i \in 1..Len(MacroLogs) :
                   MacroLogs[i] = DictValue(pc.arg, d)
    /\ AddDone =>
          /\ Len(MacroLogs) = Len(pc.before) + 1
          /\ \A x \in Range(MacroLogs) :
                Occurrences(MacroLogs, x)
                    = Occurrences(pc.before, x)
                        + (IF x = pc.arg[1] THEN 1 ELSE 0)

\* A load of two different logs for one date that MacroTracker.logs already
\* held: the list holds the one imported last, and only that one.
C25_Witness ==
    /\ LoadDone
    /\ Len(pc.arg) = 2
    /\ pc.arg[1].date = pc.arg[2].date
    /\ pc.arg[1] # pc.arg[2]
    /\ HasDate(pc.before, pc.arg[1].date)
    /\ MacroLogs = <<pc.arg[2]>>

\* add_log of a log whose date is already held: both logs are in the list.
C25_AddWitness ==
    /\ AddDone
    /\ HasDate(pc.before, pc.arg[1].date)
    /\ Len(MacroLogs) = 2
    /\ MacroLogs[1].date = MacroLogs[2].date

(***************************************************************************)
(* Claims about the adherence figures (SpecEst)                            *)
(***************************************************************************)
AdherenceCalled == call.name = "get_adherence_stats"

\* The positions of the window of a call on at least call.days logs.
WindowOfCall == (Len(logs) - call.days + 1)..Len(logs)

\* C26: whenever get_adherence_stats(days), days >= 1, returns a non-empty
\* result, logging_adherence is exactly 1 whatever gaps lie between the
\* dates in the window, and calorie_adherence and protein_adherence are the
\* number of window logs with calories > 0 (protein > 0) divided by days,
\* each within [0, 1].
C26_AdherenceFractions ==
    (AdherenceCalled /\ call.days >= 1 /\ ret.kind = "dict") =>
        LET withCalories == {i \in WindowOfCall : logs[i].calories > 0}
            withProtein == {i \in WindowOfCall : logs[i].protein > 0}
        IN  /\ Len(logs) >= call.days
            /\ ret.logging_adherence[2] > 0
            /\ ret.logging_adherence[1] = ret.logging_adherence[2]
            /\ ret.calorie_adherence = <<Cardinality(withCalories), call.days>>
            /\ ret.protein_adherence = <<Cardinality(withProtein), call.days>>
            /\ Cardinality(withCalories) \in 0..call.days
            /\ Cardinality(withProtein) \in 0..call.days

\* A window of seven logs with a skipped day between the last two and two
\* days logged without calories: logging adherence 7/7, calories 5/7.
C26_Witness ==
    /\ AdherenceCalled
    /\ call.days = MinTdeeLogs
    /\ Len(logs) >= call.days
    /\ logs[Len(logs)].date - logs[Len(logs) - 1].date = 2
    /\ ret.kind = "dict"
    /\ ret.logging_adherence = <<7, 7>>
    /\ ret.calorie_adherence = <<5, 7>>
    /\ ret.protein_adherence = <<5, 7>>

\* The last seven logs, which calculate_trends takes the adherence from.
LastWeek == {i \in 1..Len(logs) : i > Len(logs) - MovingWindow}

\* C27: ProgressTracker.detect_plateau labels a detected plateau "True
\* plateau detected (good adherence)" exactly when every one of the last 7
\* logs of the window has calories > 0; a single day without calories among
\* them (adherence 6/7) already gives the low-adherence label.
C27_GoodAdherenceIsEveryDay ==
    (PlateauCalled /\ ret.kind = "tuple" /\ ret.plateau) =>
        /\ Cardinality(LastWeek) = MovingWindow
        /\ IF \A i \in LastWeek : logs[i].calories > 0
           THEN ret.message = MsgTruePlateau
           ELSE ret.message = MsgLowAdherence

\* A plateau over a window of two weeks with a day without calories in its
\* first week: the label is the good-adherence one.
C27_EarlierLapse ==
    /\ PlateauCalled
    /\ call.weeks = 2
    /\ ret.kind = "tuple"
    /\ ret.plateau
    /\ \E i \in 1..Len(logs) : i \notin LastWeek /\ logs[i].calories = 0
    /\ ret.message = MsgTruePlateau

\* A plateau on logs whose last day alone carries no calories: the label is
\* the low-adherence one, with 86 % in the message.
C27_Witness ==
    /\ PlateauCalled
    /\ ret.kind = "tuple"
    /\ ret.plateau
    /\ Cardinality({i \in LastWeek : logs[i].calories > 0}) = MovingWindow - 1
    /\ ret.message = MsgLowAdherence
    /\ ret.percent = 86

\* C28: the result of calculate_adjustments does not depend on its stats
\* argument: on the same logs and mode a call with any other stats.body_fat
\* returns (or raises) the same; the body fat used is that of the last log.
C28_StatsIgnored ==
    AdjCalled =>
        \A other \in StatsBodyFats :
            calculate_adjustments(logs, other, call.mode) = ret

\* A standard cut losing too slowly, the last log at 26 % body fat and the
\* stats at 15 %: the record is sized for 26 %, as with stats at 30 %.
C28_Witness ==
    /\ AdjComputed
    /\ call.mode = "standard_cut"
    /\ call.stats_body_fat = 15
    /\ WeekEnd.body_fat = 26
    /\ RateRecords # <<>>
    /\ SizeOfCall \in {182, 260, 390}
    /\ Abs(RateRecords[1].calories) = SizeOfCall
    /\ calculate_adjustments(logs, 30, call.mode) = ret

\* The logs a call of the adjuster needs before it computes anything.
LogsNeeded ==
    IF call.name = "calculate_adjustments" THEN WeeklyDays
    ELSE IF call.name = "calculate_weekly_change" THEN call.days
    ELSE call.weeks * 7

AdjusterCalled ==
    call.name \in {"calculate_adjustments", "calculate_weekly_change",
                   "adjuster.detect_plateau"}

\* C29: on every log sequence with at least days logs
\* calculate_weekly_change(days), and with it calculate_adjustments and the
\* adjuster's detect_plateau, returns without raising, also when the first
\* and the last log of the window carry the same date.
C29_NeverRaises ==
    (AdjusterCalled /\ Len(logs) >= LogsNeeded) => ret.kind # "raise"

\* Seven logs of one date: calculate_adjustments raises.
C29_Witness ==
    /\ AdjCalled
    /\ Len(logs) = WeeklyDays
    /\ \A i \in 1..Len(logs) : logs[i].date = logs[1].date
    /\ ret = Raise

\* The rule a record comes from: 1 rate of progress, 2 body composition,
\* 3 plateau; 0 for a record of no rule.
RuleOf(a) ==
    IF IsRateRecord(a) THEN 1
    ELSE IF a.reason = "Losing lean mass" THEN 2
    ELSE IF IsPlateauRecord(a) THEN 3
    ELSE 0

\* C30: calculate_adjustments returns at most three records, at most one
\* per rule, in the order rate of progress, body composition, plateau; every
\* severity is low, medium or high; maintenance and conservative cut never
\* get a rate-of-progress record.
C30_ListShape ==
    (AdjCalled /\ ret.kind = "list") =>
        /\ Len(ret.value) <= 3
        /\ \A i \in 1..Len(ret.value) :
              /\ RuleOf(ret.value[i]) \in 1..3
              /\ ret.value[i].severity \in Severities
        /\ \A i, j \in 1..Len(ret.value) :
              i < j => RuleOf(ret.value[i]) < RuleOf(ret.value[j])
        /\ call.mode \in {"maintenance", "conservative_cut"} =>
              RateRecords = <<>>

\* All three rules fire: the list is a rate record, the body-composition
\* record and a plateau record, in that order.
C30_Witness ==
    /\ AdjCalled
    /\ ret.kind = "list"
    /\ Len(ret.value) = 3
    /\ RuleOf(ret.value[1]) = 1
    /\ RuleOf(ret.value[2]) = 2
    /\ RuleOf(ret.value[3]) = 3

\* Maintenance with a weight change far from every target: no rate record,
\* and the body-composition record alone.
C30_MaintenanceWitness ==
    /\ AdjComputed
    /\ call.mode = "maintenance"
    /\ WeekEnd.weight - WeekStart.weight = -130
    /\ Len(ret.value) = 1
    /\ RuleOf(ret.value[1]) = 2

====
